---- MODULE Spec2Model ----
(***************************************************************************)
(* State-machine model of the story backend (app/): the token codec, the   *)
(* auth service, the authorization gate, the user service and the          *)
(* owner-scoped universe/story services, one action per HTTP endpoint.     *)
(* Every action is a whole request: dependency chain (gate), handler,      *)
(* repository calls and the commit or rollback of get_db.                  *)
(***************************************************************************)
EXTENDS Integers, Sequences, FiniteSets, TLC

VARIABLES db, now, issued, resp, nwrites, inflight, run

vars == <<db, now, issued, resp, nwrites, inflight, run>>

-----------------------------------------------------------------------------
(* Bounds of the exploration *)

MaxTime == 3         \* the clock runs 0..MaxTime
MaxIssued == 1       \* token pairs handed out by login and refresh in one behaviour
MaxWrites == 1       \* requests of one behaviour that change the user table
MaxResWrites == 1    \* requests of one behaviour that change universes or stories
MaxAbsStep == 24     \* the worker graph starts from step counts -MaxAbsStep..MaxAbsStep

(* Token lifetimes, in clock ticks (access short, refresh long) *)
access_token_expire_minutes == 1
refresh_token_expire_days == 2

-----------------------------------------------------------------------------
(* Python values *)

None == [null |-> TRUE]
Val(x) == [null |-> FALSE, v |-> x]

\* dict helpers: update_data is a function from the keys that are set
Restrict(dict, keys) == [k \in (DOMAIN dict) \cap keys |-> dict[k]]
Pop(dict, key) == [k \in (DOMAIN dict) \ {key} |-> dict[k]]

Digits == <<"0", "1", "2", "3", "4", "5", "6", "7", "8", "9">>

\* str(user.id) for the small non-negative ids of the model
str(n) == Digits[n + 1]

\* int(s) succeeds exactly on decimal strings; otherwise it raises ValueError
IsNumeric(s) == \E n \in 0..9 : Digits[n + 1] = s
int(s) == CHOOSE n \in 0..9 : Digits[n + 1] = s

Min(a, b) == IF a < b THEN a ELSE b

-----------------------------------------------------------------------------
(* HTTP exceptions and results of a handler *)

NoArg == ""
NoBody == [kind |-> "none"]

Raise(status, msg, arg) ==
    [ok |-> FALSE, status |-> status, detail |-> [msg |-> msg, arg |-> arg]]

NotFoundError(msg, arg) == Raise(404, msg, arg)
UnauthorizedError(msg) == Raise(401, msg, NoArg)
ForbiddenError(msg) == Raise(403, msg, NoArg)
ConflictError(msg, arg) == Raise(409, msg, arg)
BadRequestError(msg) == Raise(400, msg, NoArg)

\* A successful handler: status, response body and the session's database state
Return(status, body, d) ==
    [ok |-> TRUE, status |-> status, detail |-> [msg |-> "", arg |-> NoArg],
     body |-> body, db |-> d]

\* Variant: the session is closed without a commit
NeverCommitting(pre, r) == pre

\* get_db: commit when the handler completed, roll back when it raised
get_db(pre, r) == IF r.ok THEN r.db ELSE pre

BodyOf(r) == IF r.ok THEN r.body ELSE NoBody

-----------------------------------------------------------------------------
(* Credential hasher *)

get_password_hash(password) == [argon2 |-> password]
verify_password(plain_password, hashed_password) ==
    hashed_password.argon2 = plain_password

-----------------------------------------------------------------------------
(* Token codec *)

secret_key == "secret_key"
ABSENT == "<absent>"

jwt_encode(claims, key) ==
    [key |-> key, sub |-> claims.sub, exp |-> claims.exp, type |-> claims.type]

create_access_token(data, t) ==
    jwt_encode([sub |-> data.sub, exp |-> t + access_token_expire_minutes,
                type |-> "access"], secret_key)

create_refresh_token(data, t) ==
    jwt_encode([sub |-> data.sub, exp |-> t + refresh_token_expire_days,
                type |-> "refresh"], secret_key)

\* Variant: decoding with the expiry check switched off
DecodeWithoutExpiry(token, t) ==
    IF token.key # secret_key THEN None
    ELSE [sub |-> token.sub, exp |-> token.exp, type |-> token.type]

\* jwt.decode raises JWTError on a malformed string, on a signature that does
\* not verify under the key, and on an exp claim earlier than the current time
decode_token(token, t) ==
    IF token.key # secret_key THEN None
    ELSE IF token.exp < t THEN None
    ELSE [sub |-> token.sub, exp |-> token.exp, type |-> token.type]

\* payload.get(k) is None when the claim is missing
payload_get(v) == IF v = ABSENT THEN None ELSE Val(v)

NoToken == [key |-> "no_header", sub |-> ABSENT, exp |-> 0, type |-> ABSENT]
Garbage == [key |-> "malformed", sub |-> ABSENT, exp |-> 0, type |-> ABSENT]
Forge(token) == [token EXCEPT !.key = "other_key"]

-----------------------------------------------------------------------------
(* Identity store: UserRepository over the session state d *)

UserRepository_get_by_id(d, user_id) ==
    IF \E u \in d.users : u.id = user_id
    THEN CHOOSE u \in d.users : u.id = user_id
    ELSE None

\* select(User).where(User.email == email): SQL equality on the stored string
UserRepository_get_by_email(d, email) ==
    IF \E u \in d.users : u.email = email
    THEN CHOOSE u \in d.users : u.email = email
    ELSE None

\* The n-th row (1-based) of a set of rows in primary-key order
RECURSIVE RowsById(_)
RowsById(S) ==
    IF S = {} THEN <<>>
    ELSE LET r == CHOOSE x \in S : \A y \in S : x.id <= y.id
         IN <<r>> \o RowsById(S \ {r})

\* .offset(skip).limit(limit)
Page(rows, skip, limit) ==
    SubSeq(rows, skip + 1, Min(Len(rows), skip + limit))

UserRepository_get_all(d, skip, limit) == Page(RowsById(d.users), skip, limit)

\* session.add + flush: the row gets the next id of the sequence
UserRepository_create(d, user) ==
    LET row == [user EXCEPT !.id = d.next_user_id]
    IN [row |-> row,
        db |-> [d EXCEPT !.users = @ \cup {row}, !.next_user_id = @ + 1]]

\* Columns declared nullable hold None or Val(x); the others hold x
NullableColumns == {"full_name", "description", "content", "image_urls"}

\* setattr for every item of update_data whose value is not None
RECURSIVE ApplyUpdate(_, _, _)
ApplyUpdate(row, update_data, fields) ==
    IF fields = {} THEN row
    ELSE LET f == CHOOSE x \in fields : TRUE
             next == IF ~update_data[f].null
                     THEN [row EXCEPT ![f] = IF f \in NullableColumns
                                             THEN update_data[f]
                                             ELSE update_data[f].v]
                     ELSE row
         IN ApplyUpdate(next, update_data, fields \ {f})

UserRepository_update(d, user, update_data) ==
    LET row == ApplyUpdate(user, update_data, DOMAIN update_data)
    IN [row |-> row,
        db |-> [d EXCEPT !.users = (@ \ {user}) \cup {row}]]

\* A flush that violates a foreign key raises IntegrityError, which no
\* handler catches
IntegrityError == Raise(500, "Internal Server Error", NoArg)

\* Variant: the row is kept and only marked inactive
DeleteKeepingRow(d, user) ==
    IF /\ d.foreign_keys
       /\ \E r \in d.universes \cup d.stories : r.user_id = user.id
    THEN IntegrityError
    ELSE [ok |-> TRUE,
          db |-> [d EXCEPT !.users = (@ \ {user}) \cup {[user EXCEPT !.is_active = FALSE]}]]

\* session.delete + flush; universes and stories reference users.id
UserRepository_delete(d, user) ==
    IF /\ d.foreign_keys
       /\ \E r \in d.universes \cup d.stories : r.user_id = user.id
    THEN IntegrityError
    ELSE [ok |-> TRUE, db |-> [d EXCEPT !.users = @ \ {user}]]

-----------------------------------------------------------------------------
(* Request validation (pydantic schemas) *)

\* EmailStr: email-validator lower-cases the domain and keeps the local part
EmailStr(email) ==
    CASE email = "a@X.com" -> "a@x.com"
      [] email = "A@X.com" -> "A@x.com"
      [] OTHER -> email

\* Comparison of two emails ignoring letter case
CaseFold(email) ==
    CASE email \in {"A@x.com", "a@X.com", "A@X.com"} -> "a@x.com"
      [] OTHER -> email

ValidateEmailField(body) ==
    IF "email" \in DOMAIN body /\ ~body["email"].null
    THEN [body EXCEPT !["email"] = Val(EmailStr(@.v))]
    ELSE body

\* UserCreate(email, password, full_name)
UserCreate(body) == [body EXCEPT !.email = EmailStr(@)]

\* UserUpdate: unknown keys are ignored, model_dump(exclude_unset=True)
\* gives back exactly the keys that were set
UserUpdateFields == {"email", "password", "full_name", "is_active"}
UserUpdate(body) == ValidateEmailField(Restrict(body, UserUpdateFields))

UserAdminUpdateFields == UserUpdateFields \cup {"is_admin"}
UserAdminUpdate(body) == ValidateEmailField(Restrict(body, UserAdminUpdateFields))

\* UserResponse: the public projection of a row (no hashed_password)
UserResponse(user) ==
    [id |-> user.id, email |-> user.email, full_name |-> user.full_name,
     is_active |-> user.is_active, is_admin |-> user.is_admin]

\* Column defaults of a row built by User(email=, hashed_password=, full_name=)
User(email, hashed_password, full_name) ==
    [id |-> 0, email |-> email, hashed_password |-> hashed_password,
     full_name |-> full_name, is_active |-> TRUE, is_admin |-> FALSE]

-----------------------------------------------------------------------------
(* UserService *)

UserService_get_by_id(d, user_id) ==
    LET user == UserRepository_get_by_id(d, user_id)
    IN IF user = None
       THEN NotFoundError("User with id not found", str(user_id))
       ELSE [ok |-> TRUE, user |-> user]

\* Variant that creates the row without looking the email up first
CreateUserWithoutEmailCheck(d, user_in) ==
    LET c == UserRepository_create(d,
                 User(user_in.email, get_password_hash(user_in.password),
                      user_in.full_name))
    IN [ok |-> TRUE, user |-> c.row, db |-> c.db]

UserService_create_user(d, user_in) ==
    LET existing_user == UserRepository_get_by_email(d, user_in.email)
    IN IF existing_user # None
       THEN ConflictError("User with email already exists", user_in.email)
       ELSE LET c == UserRepository_create(d,
                        User(user_in.email, get_password_hash(user_in.password),
                             user_in.full_name))
            IN [ok |-> TRUE, user |-> c.row, db |-> c.db]

\* update_user and update_user_admin have the same body; they differ in the
\* schema that produced user_in
UserService_update(d, user_id, update_data) ==
    LET g == UserService_get_by_id(d, user_id)
    IN IF ~g.ok THEN g
       ELSE
       LET user == g.user
           email_changes == /\ "email" \in DOMAIN update_data
                            /\ (update_data["email"].null
                                \/ update_data["email"].v # user.email)
           existing_user == IF update_data["email"].null THEN None
                            ELSE UserRepository_get_by_email(d, update_data["email"].v)
       IN IF email_changes /\ existing_user # None
          THEN ConflictError("User with email already exists", update_data["email"].v)
          ELSE IF "password" \in DOMAIN update_data /\ update_data["password"].null
          THEN \* get_password_hash(None): the hasher cannot encode None
               Raise(500, "Internal Server Error", NoArg)
          ELSE
          LET hashed == IF "password" \in DOMAIN update_data
                        THEN ("hashed_password" :>
                                Val(get_password_hash(update_data["password"].v)))
                             @@ Pop(update_data, "password")
                        ELSE update_data
              u == UserRepository_update(d, user, hashed)
          IN [ok |-> TRUE, user |-> u.row, db |-> u.db]

UserService_update_user(d, user_id, user_in) == UserService_update(d, user_id, user_in)

UserService_update_user_admin(d, user_id, user_in) ==
    UserService_update(d, user_id, user_in)

UserService_delete_user(d, user_id) ==
    LET g == UserService_get_by_id(d, user_id)
    IN IF ~g.ok THEN g ELSE UserRepository_delete(d, g.user)

-----------------------------------------------------------------------------
(* AuthService *)

AuthService_authenticate_user(d, email, password) ==
    LET user == UserRepository_get_by_email(d, email)
    IN IF user = None THEN None
       ELSE IF ~verify_password(password, user.hashed_password) THEN None
       ELSE user

\* Variant: both tokens are given the refresh lifetime
CreateTokensWithOneTtl(user, t) ==
    [kind |-> "tokens",
     access_token |-> [create_access_token([sub |-> str(user.id)], t)
                          EXCEPT !.exp = t + refresh_token_expire_days],
     refresh_token |-> create_refresh_token([sub |-> str(user.id)], t),
     token_type |-> "bearer"]

AuthService_create_tokens(user, t) ==
    [kind |-> "tokens",
     access_token |-> create_access_token([sub |-> str(user.id)], t),
     refresh_token |-> create_refresh_token([sub |-> str(user.id)], t),
     token_type |-> "bearer"]

\* Variant: the flow without the check of the type claim
RefreshWithoutTypeCheck(d, t, refresh_token) ==
    LET payload == decode_token(refresh_token, t)
    IN IF payload = None THEN UnauthorizedError("Invalid refresh token")
       ELSE IF payload_get(payload.sub) = None
       THEN UnauthorizedError("Invalid refresh token")
       ELSE IF ~IsNumeric(payload.sub)
       THEN Raise(500, "Internal Server Error", NoArg)
       ELSE
       LET user == UserRepository_get_by_id(d, int(payload.sub))
       IN IF user = None THEN UnauthorizedError("User not found")
          ELSE IF ~user.is_active THEN UnauthorizedError("User is inactive")
          ELSE Return(200, AuthService_create_tokens(user, t), d)

AuthService_refresh_access_token(d, t, refresh_token) ==
    LET payload == decode_token(refresh_token, t)
    IN IF payload = None THEN UnauthorizedError("Invalid refresh token")
       ELSE IF payload_get(payload.type) # Val("refresh")
       THEN BadRequestError("Invalid token type")
       ELSE IF payload_get(payload.sub) = None
       THEN UnauthorizedError("Invalid refresh token")
       ELSE IF ~IsNumeric(payload.sub)
       THEN \* int(user_id) raises ValueError, which nothing catches
            Raise(500, "Internal Server Error", NoArg)
       ELSE
       LET user == UserRepository_get_by_id(d, int(payload.sub))
       IN IF user = None THEN UnauthorizedError("User not found")
          ELSE IF ~user.is_active THEN UnauthorizedError("User is inactive")
          ELSE Return(200, AuthService_create_tokens(user, t), d)

-----------------------------------------------------------------------------
(* Authorization gate (api/deps.py) *)

credentials_exception == Raise(401, "Could not validate credentials", NoArg)

\* OAuth2PasswordBearer: a request without a bearer token is refused
oauth2_scheme(token) ==
    IF token = NoToken THEN Raise(401, "Not authenticated", NoArg)
    ELSE [ok |-> TRUE]

\* Variant: the gate without the check of the type claim
GateWithoutTypeCheck(d, t, token) ==
    IF ~oauth2_scheme(token).ok THEN oauth2_scheme(token)
    ELSE
    LET payload == decode_token(token, t)
    IN IF payload = None THEN credentials_exception
       ELSE IF payload_get(payload.sub) = None THEN credentials_exception
       ELSE IF ~IsNumeric(payload.sub) THEN credentials_exception
       ELSE LET g == UserService_get_by_id(d, int(payload.sub))
            IN IF ~g.ok THEN credentials_exception
               ELSE [ok |-> TRUE, user |-> g.user]

get_current_user(d, t, token) ==
    IF ~oauth2_scheme(token).ok THEN oauth2_scheme(token)
    ELSE
    LET payload == decode_token(token, t)
    IN IF payload = None THEN credentials_exception
       ELSE IF payload_get(payload.type) # Val("access") THEN credentials_exception
       ELSE IF payload_get(payload.sub) = None THEN credentials_exception
       ELSE IF ~IsNumeric(payload.sub) THEN credentials_exception
       ELSE LET g == UserService_get_by_id(d, int(payload.sub))
            IN IF ~g.ok THEN credentials_exception
               ELSE [ok |-> TRUE, user |-> g.user]

\* Variant that lets an inactive user through
ActiveGateWithoutActiveCheck(d, t, token) == get_current_user(d, t, token)

get_current_active_user(d, t, token) ==
    LET g == get_current_user(d, t, token)
    IN IF ~g.ok THEN g
       ELSE IF ~g.user.is_active THEN UnauthorizedError("Inactive user")
       ELSE g

\* Variant that lets every active user through
AdminGateWithoutAdminCheck(d, t, token) == get_current_active_user(d, t, token)

get_current_admin_user(d, t, token) ==
    LET g == get_current_active_user(d, t, token)
    IN IF ~g.ok THEN g
       ELSE IF ~g.user.is_admin THEN ForbiddenError("Admin privileges required")
       ELSE g

-----------------------------------------------------------------------------
(* Resource store: StoryUniverseRepository and StoryRepository *)

\* Variant that looks a universe up by id alone
GetUniverseIgnoringOwner(d, user_id, universe_id) ==
    IF \E u \in d.universes : u.id = universe_id
    THEN CHOOSE u \in d.universes : u.id = universe_id
    ELSE None

StoryUniverseRepository_get_by_user_and_id(d, user_id, universe_id) ==
    IF \E u \in d.universes : u.id = universe_id /\ u.user_id = user_id
    THEN CHOOSE u \in d.universes : u.id = universe_id /\ u.user_id = user_id
    ELSE None

StoryUniverseRepository_get_all_by_user(d, user_id, skip, limit) ==
    Page(RowsById({u \in d.universes : u.user_id = user_id}), skip, limit)

StoryUniverseRepository_create(d, universe) ==
    LET row == [universe EXCEPT !.id = d.next_universe_id]
    IN [row |-> row,
        db |-> [d EXCEPT !.universes = @ \cup {row}, !.next_universe_id = @ + 1]]

StoryUniverseRepository_update(d, universe, update_data) ==
    LET row == ApplyUpdate(universe, update_data, DOMAIN update_data)
    IN [row |-> row,
        db |-> [d EXCEPT !.universes = (@ \ {universe}) \cup {row}]]

\* stories.story_universe_id references story_universes.id
StoryUniverseRepository_delete(d, universe) ==
    IF d.foreign_keys /\ \E s \in d.stories : s.story_universe_id = universe.id
    THEN IntegrityError
    ELSE [ok |-> TRUE, db |-> [d EXCEPT !.universes = @ \ {universe}]]

\* Variant that looks a story up by id alone
GetStoryIgnoringOwner(d, user_id, story_id) ==
    IF \E s \in d.stories : s.id = story_id
    THEN CHOOSE s \in d.stories : s.id = story_id
    ELSE None

StoryRepository_get_by_user_and_id(d, user_id, story_id) ==
    IF \E s \in d.stories : s.id = story_id /\ s.user_id = user_id
    THEN CHOOSE s \in d.stories : s.id = story_id /\ s.user_id = user_id
    ELSE None

\* Variant: the scan is not filtered by the owner
GetAllStoriesOfEveryone(d, user_id, skip, limit) ==
    Page(RowsById(d.stories), skip, limit)

StoryRepository_get_all_by_user(d, user_id, skip, limit) ==
    Page(RowsById({s \in d.stories : s.user_id = user_id}), skip, limit)

StoryRepository_get_all_by_universe(d, user_id, universe_id, skip, limit) ==
    Page(RowsById({s \in d.stories : /\ s.user_id = user_id
                                     /\ s.story_universe_id = universe_id}),
         skip, limit)

StoryRepository_create(d, story) ==
    LET row == [story EXCEPT !.id = d.next_story_id]
    IN [row |-> row,
        db |-> [d EXCEPT !.stories = @ \cup {row}, !.next_story_id = @ + 1]]

\* Variant: a null of the payload is written to a nullable column
UpdateStoringNull(d, story, update_data) ==
    LET row == [f \in DOMAIN story |->
                   IF f \in DOMAIN update_data /\ f \in NullableColumns
                   THEN update_data[f]
                   ELSE ApplyUpdate(story, update_data, DOMAIN update_data)[f]]
    IN [row |-> row,
        db |-> [d EXCEPT !.stories = (@ \ {story}) \cup {row}]]

StoryRepository_update(d, story, update_data) ==
    LET row == ApplyUpdate(story, update_data, DOMAIN update_data)
    IN [row |-> row,
        db |-> [d EXCEPT !.stories = (@ \ {story}) \cup {row}]]

StoryRepository_delete(d, story) ==
    [ok |-> TRUE, db |-> [d EXCEPT !.stories = @ \ {story}]]

-----------------------------------------------------------------------------
(* StoryUniverseService and StoryService *)

StoryUniverse(user_id, name, description) ==
    [id |-> 0, user_id |-> user_id, name |-> name, description |-> description]

Story(user_id, story_universe_id, title, content, image_urls) ==
    [id |-> 0, user_id |-> user_id, story_universe_id |-> story_universe_id,
     title |-> title, content |-> content, image_urls |-> image_urls]

StoryUniverseUpdateFields == {"name", "description"}
StoryUniverseUpdate(body) == Restrict(body, StoryUniverseUpdateFields)

StoryUpdateFields == {"title", "content", "image_urls"}
StoryUpdate(body) == Restrict(body, StoryUpdateFields)

StoryUniverseService_get_by_id(d, user_id, universe_id) ==
    LET universe == StoryUniverseRepository_get_by_user_and_id(d, user_id, universe_id)
    IN IF universe = None
       THEN NotFoundError("Story universe with id not found", str(universe_id))
       ELSE [ok |-> TRUE, universe |-> universe]

StoryUniverseService_get_all(d, user_id, skip, limit) ==
    StoryUniverseRepository_get_all_by_user(d, user_id, skip, limit)

StoryUniverseService_create(d, user_id, data) ==
    LET c == StoryUniverseRepository_create(d,
                 StoryUniverse(user_id, data.name, data.description))
    IN [ok |-> TRUE, universe |-> c.row, db |-> c.db]

StoryUniverseService_update(d, user_id, universe_id, data) ==
    LET g == StoryUniverseService_get_by_id(d, user_id, universe_id)
    IN IF ~g.ok THEN g
       ELSE LET u == StoryUniverseRepository_update(d, g.universe, data)
            IN [ok |-> TRUE, universe |-> u.row, db |-> u.db]

StoryUniverseService_delete(d, user_id, universe_id) ==
    LET g == StoryUniverseService_get_by_id(d, user_id, universe_id)
    IN IF ~g.ok THEN g ELSE StoryUniverseRepository_delete(d, g.universe)

StoryService_get_by_id(d, user_id, story_id) ==
    LET story == StoryRepository_get_by_user_and_id(d, user_id, story_id)
    IN IF story = None
       THEN NotFoundError("Story with id not found", str(story_id))
       ELSE [ok |-> TRUE, story |-> story]

StoryService_get_all(d, user_id, skip, limit) ==
    StoryRepository_get_all_by_user(d, user_id, skip, limit)

\* Variant: the universe is not looked up before the scan
ListByUniverseWithoutCheck(d, user_id, universe_id, skip, limit) ==
    [ok |-> TRUE,
     stories |-> StoryRepository_get_all_by_universe(d, user_id, universe_id,
                                                     skip, limit)]

StoryService_get_all_by_universe(d, user_id, universe_id, skip, limit) ==
    LET universe == StoryUniverseRepository_get_by_user_and_id(d, user_id, universe_id)
    IN IF universe = None
       THEN NotFoundError("Story universe with id not found", str(universe_id))
       ELSE [ok |-> TRUE,
             stories |-> StoryRepository_get_all_by_universe(d, user_id, universe_id,
                                                             skip, limit)]

\* Variant that inserts without resolving the universe under the owner
CreateWithoutUniverseCheck(d, user_id, data) ==
    LET c == StoryRepository_create(d,
                 Story(user_id, data.story_universe_id, data.title,
                       data.content, data.image_urls))
    IN [ok |-> TRUE, story |-> c.row, db |-> c.db]

StoryService_create(d, user_id, data) ==
    LET universe == StoryUniverseRepository_get_by_user_and_id(d, user_id,
                                                               data.story_universe_id)
    IN IF universe = None
       THEN NotFoundError("Story universe with id not found",
                          str(data.story_universe_id))
       ELSE LET c == StoryRepository_create(d,
                        Story(user_id, data.story_universe_id, data.title,
                              data.content, data.image_urls))
            IN [ok |-> TRUE, story |-> c.row, db |-> c.db]

\* Variant: the payload replaces the record, a field it does not carry is
\* reset
UpdateReplacingRecord(d, user_id, story_id, data) ==
    LET g == StoryService_get_by_id(d, user_id, story_id)
    IN IF ~g.ok THEN g
       ELSE LET blank == [g.story EXCEPT !.content = None, !.image_urls = None]
                u == StoryRepository_update(d, blank, data)
            IN [ok |-> TRUE, story |-> u.row,
                db |-> [d EXCEPT !.stories = (@ \ {g.story}) \cup {u.row}]]

StoryService_update(d, user_id, story_id, data) ==
    LET g == StoryService_get_by_id(d, user_id, story_id)
    IN IF ~g.ok THEN g
       ELSE LET u == StoryRepository_update(d, g.story, data)
            IN [ok |-> TRUE, story |-> u.row, db |-> u.db]

StoryService_delete(d, user_id, story_id) ==
    LET g == StoryService_get_by_id(d, user_id, story_id)
    IN IF ~g.ok THEN g ELSE StoryRepository_delete(d, g.story)

-----------------------------------------------------------------------------
(* Endpoints of /auth and /users: the handler behind its dependencies *)

UserBody(user) == [kind |-> "user", user |-> UserResponse(user)]
UsersBody(rows) == [kind |-> "users", users |-> [i \in DOMAIN rows |-> UserResponse(rows[i])]]

register(d, body) ==
    LET c == UserService_create_user(d, UserCreate(body))
    IN IF ~c.ok THEN c ELSE Return(201, UserBody(c.user), c.db)

\* Variant that tells an unknown email apart from a wrong password
LoginNamingUnknownEmail(d, t, form_data) ==
    LET user == AuthService_authenticate_user(d, form_data.username, form_data.password)
    IN IF UserRepository_get_by_email(d, form_data.username) = None
       THEN Raise(401, "Unknown email", NoArg)
       ELSE IF user = None THEN Raise(401, "Incorrect email or password", NoArg)
       ELSE IF ~user.is_active THEN Raise(401, "User is inactive", NoArg)
       ELSE Return(200, AuthService_create_tokens(user, t), d)

login(d, t, form_data) ==
    LET user == AuthService_authenticate_user(d, form_data.username, form_data.password)
    IN IF user = None THEN Raise(401, "Incorrect email or password", NoArg)
       ELSE IF ~user.is_active THEN Raise(401, "User is inactive", NoArg)
       ELSE Return(200, AuthService_create_tokens(user, t), d)

\* Variant: a flow that resolves the subject before it checks the type
RefreshResolvingSubjectFirst(d, t, request) ==
    LET payload == decode_token(request.refresh_token, t)
    IN IF payload = None THEN UnauthorizedError("Invalid refresh token")
       ELSE IF payload_get(payload.sub) = None
       THEN UnauthorizedError("Invalid refresh token")
       ELSE IF ~IsNumeric(payload.sub)
       THEN Raise(500, "Internal Server Error", NoArg)
       ELSE
       LET user == UserRepository_get_by_id(d, int(payload.sub))
       IN IF user = None THEN UnauthorizedError("User not found")
          ELSE IF ~user.is_active THEN UnauthorizedError("User is inactive")
          ELSE IF payload_get(payload.type) # Val("refresh")
          THEN BadRequestError("Invalid token type")
          ELSE Return(200, AuthService_create_tokens(user, t), d)

refresh_token(d, t, request) ==
    AuthService_refresh_access_token(d, t, request.refresh_token)

\* Variant: a server on which a later login or refresh of the subject takes
\* the earlier access tokens out of use
ProfileForLatestTokenOnly(d, t, token) ==
    LET g == get_current_active_user(d, t, token)
    IN IF \E k \in issued : k.type = "access" /\ k.sub = token.sub /\ k.exp > token.exp
       THEN credentials_exception
       ELSE IF ~g.ok THEN g ELSE Return(200, UserBody(g.user), d)

get_current_user_profile(d, t, token) ==
    LET g == get_current_active_user(d, t, token)
    IN IF ~g.ok THEN g ELSE Return(200, UserBody(g.user), d)

\* Variant: is_active is not removed from the update data
ProfileUpdateKeepingIsActive(d, t, token, body) ==
    LET g == get_current_active_user(d, t, token)
    IN IF ~g.ok THEN g
       ELSE LET u == UserService_update_user(d, g.user.id, UserUpdate(body))
            IN IF ~u.ok THEN u ELSE Return(200, UserBody(u.user), u.db)

update_current_user_profile(d, t, token, body) ==
    LET g == get_current_active_user(d, t, token)
    IN IF ~g.ok THEN g
       ELSE LET update_data == Pop(UserUpdate(body), "is_active")
                u == UserService_update_user(d, g.user.id, UserUpdate(update_data))
            IN IF ~u.ok THEN u ELSE Return(200, UserBody(u.user), u.db)

list_users(d, t, token, skip, limit) ==
    LET g == get_current_admin_user(d, t, token)
    IN IF ~g.ok THEN g
       ELSE Return(200, UsersBody(UserRepository_get_all(d, skip, limit)), d)

get_user(d, t, token, user_id) ==
    LET g == get_current_admin_user(d, t, token)
    IN IF ~g.ok THEN g
       ELSE LET u == UserService_get_by_id(d, user_id)
            IN IF ~u.ok THEN u ELSE Return(200, UserBody(u.user), d)

update_user(d, t, token, user_id, body) ==
    LET g == get_current_admin_user(d, t, token)
    IN IF ~g.ok THEN g
       ELSE LET u == UserService_update_user_admin(d, user_id, UserAdminUpdate(body))
            IN IF ~u.ok THEN u ELSE Return(200, UserBody(u.user), u.db)

delete_user(d, t, token, user_id) ==
    LET g == get_current_admin_user(d, t, token)
    IN IF ~g.ok THEN g
       ELSE LET u == UserService_delete_user(d, user_id)
            IN IF ~u.ok THEN u ELSE Return(204, NoBody, u.db)

-----------------------------------------------------------------------------
(* Endpoints of /story-universes and /stories *)

UniverseBody(universe) == [kind |-> "universe", universe |-> universe]
StoryBody(story) == [kind |-> "story", story |-> story]
ListBody(rows) == [kind |-> "list", rows |-> rows]

create_story_universe(d, t, token, data) ==
    LET g == get_current_active_user(d, t, token)
    IN IF ~g.ok THEN g
       ELSE LET c == StoryUniverseService_create(d, g.user.id, data)
            IN Return(201, UniverseBody(c.universe), c.db)

list_story_universes(d, t, token, skip, limit) ==
    LET g == get_current_active_user(d, t, token)
    IN IF ~g.ok THEN g
       ELSE Return(200, ListBody(StoryUniverseService_get_all(d, g.user.id, skip, limit)), d)

get_story_universe(d, t, token, universe_id) ==
    LET g == get_current_active_user(d, t, token)
    IN IF ~g.ok THEN g
       ELSE LET u == StoryUniverseService_get_by_id(d, g.user.id, universe_id)
            IN IF ~u.ok THEN u ELSE Return(200, UniverseBody(u.universe), d)

update_story_universe(d, t, token, universe_id, body) ==
    LET g == get_current_active_user(d, t, token)
    IN IF ~g.ok THEN g
       ELSE LET u == StoryUniverseService_update(d, g.user.id, universe_id,
                                                 StoryUniverseUpdate(body))
            IN IF ~u.ok THEN u ELSE Return(200, UniverseBody(u.universe), u.db)

delete_story_universe(d, t, token, universe_id) ==
    LET g == get_current_active_user(d, t, token)
    IN IF ~g.ok THEN g
       ELSE LET u == StoryUniverseService_delete(d, g.user.id, universe_id)
            IN IF ~u.ok THEN u ELSE Return(204, NoBody, u.db)

create_story(d, t, token, data) ==
    LET g == get_current_active_user(d, t, token)
    IN IF ~g.ok THEN g
       ELSE LET c == StoryService_create(d, g.user.id, data)
            IN IF ~c.ok THEN c ELSE Return(201, StoryBody(c.story), c.db)

\* universe_id is None when the query parameter is not given
list_stories(d, t, token, universe_id, skip, limit) ==
    LET g == get_current_active_user(d, t, token)
    IN IF ~g.ok THEN g
       ELSE IF universe_id # None
       THEN LET l == StoryService_get_all_by_universe(d, g.user.id, universe_id.v,
                                                      skip, limit)
            IN IF ~l.ok THEN l ELSE Return(200, ListBody(l.stories), d)
       ELSE Return(200, ListBody(StoryService_get_all(d, g.user.id, skip, limit)), d)

get_story(d, t, token, story_id) ==
    LET g == get_current_active_user(d, t, token)
    IN IF ~g.ok THEN g
       ELSE LET u == StoryService_get_by_id(d, g.user.id, story_id)
            IN IF ~u.ok THEN u ELSE Return(200, StoryBody(u.story), d)

update_story(d, t, token, story_id, body) ==
    LET g == get_current_active_user(d, t, token)
    IN IF ~g.ok THEN g
       ELSE LET u == StoryService_update(d, g.user.id, story_id, StoryUpdate(body))
            IN IF ~u.ok THEN u ELSE Return(200, StoryBody(u.story), u.db)

delete_story(d, t, token, story_id) ==
    LET g == get_current_active_user(d, t, token)
    IN IF ~g.ok THEN g
       ELSE LET u == StoryService_delete(d, g.user.id, story_id)
            IN IF ~u.ok THEN u ELSE Return(204, NoBody, u.db)

-----------------------------------------------------------------------------
(* Inputs of the requests *)

Emails == {"a@x.com", "A@X.com", "b@x.com"}
Passwords == {"password123", "newpassword1"}
FullNames == {None, Val("Test User")}
\* Path ids: every id assigned so far and the next, unassigned one
UserIds == 1..db.next_user_id
Skips == 0..1
Limits == {1, 100}

UniverseIds == 1..db.next_universe_id
StoryIds == 1..db.next_story_id
Names == {"Test Universe", "My Universe"}
Descriptions == {None, Val("A test universe description")}
Titles == {"Test Story", "Updated Title"}
Contents == {None, Val("Story content")}
ImageUrls == {None, Val(<<"https://example.com/1.png">>)}

FieldValues(f) ==
    CASE f = "email" -> {None} \cup {Val(e) : e \in Emails}
      [] f = "password" -> {None} \cup {Val(p) : p \in Passwords}
      [] f = "full_name" -> FullNames
      [] f \in {"is_active", "is_admin"} -> {None, Val(TRUE), Val(FALSE)}
      [] f = "name" -> {None} \cup {Val(n) : n \in Names}
      [] f = "description" -> Descriptions
      [] f = "title" -> {None} \cup {Val(x) : x \in Titles}
      [] f = "content" -> Contents
      [] f = "image_urls" -> ImageUrls

\* JSON bodies of an update request: the keys in S, each null or a value
RECURSIVE BodiesOver(_)
BodiesOver(S) ==
    IF S = {} THEN {[k \in {} |-> None]}
    ELSE LET f == CHOOSE x \in S : TRUE
         IN {(f :> v) @@ b : v \in FieldValues(f), b \in BodiesOver(S \ {f})}

\* Well-formed, unexpired tokens for the administrator that carry a signature
\* made with a key that is not the server's
ForgedAccess == Forge(create_access_token([sub |-> "1"], MaxTime))
ForgedRefresh == Forge(create_refresh_token([sub |-> "1"], MaxTime))

\* Tokens a client can present: the ones handed out, forged ones and a
\* string that is no token
Presentable == issued \cup {ForgedAccess, ForgedRefresh, Garbage}

\* Authorization header of a protected request (possibly missing)
Bearer == issued \cup {ForgedAccess, Garbage, NoToken}

-----------------------------------------------------------------------------
(* State *)

\* conftest.py: user_token and admin_token are made for the two seeded accounts
FixtureTokens == {create_access_token([sub |-> str(id)], 0) : id \in {1, 2}}

\* test_auth.py: the test user has logged in; the access token of that login
\* is the one of the fixture, its refresh token comes with it
LoginTokens == {create_refresh_token([sub |-> "2"], 0)}

\* Tokens in the clients' hands when the first request arrives
SeedTokens == FixtureTokens \cup LoginTokens

test_admin_user ==
    [id |-> 1, email |-> "b@x.com", hashed_password |-> get_password_hash("password123"),
     full_name |-> Val("Test User"), is_active |-> TRUE, is_admin |-> TRUE]

test_user ==
    [id |-> 2, email |-> "a@x.com", hashed_password |-> get_password_hash("password123"),
     full_name |-> Val("Test User"), is_active |-> TRUE, is_admin |-> FALSE]

BodyEmail(body) ==
    IF "email" \in DOMAIN body /\ ~body["email"].null THEN body["email"].v ELSE ""

\* A request without a JSON body of optional fields
EmptyBody == [k \in {} |-> None]

Req(token, email, password, id) ==
    [token |-> token, email |-> email, password |-> password, id |-> id,
     body |-> EmptyBody]

\* An update request: the bearer token, the path id and the JSON body
UpdateReq(token, id, body) ==
    [Req(token, BodyEmail(body), "", id) EXCEPT !.body = body]

\* A list request: the bearer token, the universe_id filter (0 when there is
\* none) and the query parameters skip and limit
PageReq(token, id, skip, limit) ==
    [Req(token, "", "", id) EXCEPT !.body = ("skip" :> Val(skip)) @@ ("limit" :> Val(limit))]

NoResp ==
    [op |-> "none", req |-> Req(NoToken, "", "", 0), status |-> 0,
     detail |-> [msg |-> "", arg |-> NoArg], body |-> NoBody]

\* The requests whose steps are followed one by one (user service, lookup
\* then write then commit); a slot that serves nothing is idle
Slots == {1, 2}

\* The worker's graph run; the backend never starts one
NoRun ==
    [status |-> "idle", next |-> "END", supersteps |-> 0, n |-> 0,
     state |-> [messages |-> 0, step_count |-> 0, should_continue |-> FALSE],
     visits |-> [input |-> 0, process |-> 0, output |-> 0]]

NoTx ==
    [pc |-> "idle", op |-> "none", token |-> NoToken, id |-> 0, loaded |-> "",
     email |-> "", password |-> "", status |-> 0]

Init ==
    /\ db = [users |-> {test_admin_user, test_user}, next_user_id |-> 3,
             universes |-> {}, next_universe_id |-> 1,
             stories |-> {}, next_story_id |-> 1, foreign_keys |-> TRUE]
    /\ now = 0
    /\ issued = SeedTokens
    /\ resp = NoResp
    /\ nwrites = 0
    /\ inflight = [i \in Slots |-> NoTx]
    /\ run = NoRun

Response(op, req, r) ==
    [op |-> op, req |-> req, status |-> r.status, detail |-> r.detail,
     body |-> BodyOf(r)]

TokensOf(r) ==
    IF r.ok /\ r.body.kind = "tokens"
    THEN {r.body.access_token, r.body.refresh_token}
    ELSE {}

\* One request: the response goes out, get_db commits or rolls back, and the
\* tokens of a token response are from then on in the client's hands
ServeWithin(budget, op, req, r) ==
    /\ Cardinality((issued \cup TokensOf(r)) \ SeedTokens) <= 2 * MaxIssued
    /\ resp' = Response(op, req, r)
    /\ db' = get_db(db, r)
    /\ nwrites' = IF db' = db THEN nwrites ELSE nwrites + 1
    /\ nwrites' <= budget
    /\ issued' = issued \cup TokensOf(r)
    /\ now' = now
    /\ inflight' = inflight
    /\ run' = run

Serve(op, req, r) == ServeWithin(MaxWrites, op, req, r)
ServeRes(op, req, r) == ServeWithin(MaxResWrites, op, req, r)

\* The client has read the response; the next request can be served
Deliver ==
    /\ resp # NoResp
    /\ resp' = NoResp
    /\ UNCHANGED <<db, now, issued, nwrites, inflight, run>>

\* A request refused by the gate never has its arguments looked at, so one
\* choice of arguments stands for all of them
Args(gate, S) == IF gate.ok THEN S ELSE {CHOOSE a \in S : TRUE}

\* Any JSON keys may be sent; the schema decides which ones count
\* The empty body and the bodies that carry one key
BodiesWith(fields) == BodiesOver({}) \cup UNION {BodiesOver({f}) : f \in fields}

UpdateBodies == BodiesWith(UserAdminUpdateFields)
UniverseUpdateBodies == BodiesWith(StoryUniverseUpdateFields)
StoryUpdateBodies == BodiesWith(StoryUpdateFields)
PageInputs == Skips \X Limits
UniverseInputs == Names \X Descriptions
StoryInputs == Titles \X Contents \X ImageUrls
UniverseFilters == {None} \cup {Val(i) : i \in UniverseIds}

Register ==
    /\ resp = NoResp
    /\ \E email \in Emails, password \in Passwords, full_name \in FullNames :
           LET body == [email |-> email, password |-> password, full_name |-> full_name]
           IN Serve("register", Req(NoToken, email, password, 0), register(db, body))

\* Variant: the tokens are created for whoever authenticates, active or not
LoginWithoutActiveCheck ==
    /\ resp = NoResp
    /\ \E username \in Emails, password \in Passwords :
           LET user == AuthService_authenticate_user(db, username, password)
           IN Serve("login", Req(NoToken, username, password, 0),
                    IF user = None THEN Raise(401, "Incorrect email or password", NoArg)
                    ELSE Return(200, AuthService_create_tokens(user, now), db))

Login ==
    /\ resp = NoResp
    /\ \E username \in Emails, password \in Passwords :
           LET form_data == [username |-> username, password |-> password]
           IN Serve("login", Req(NoToken, username, password, 0),
                    login(db, now, form_data))

\* Variant: a server that rotates refresh tokens and refuses one for which a
\* later one has been handed out
RefreshTokenRotating ==
    /\ resp = NoResp
    /\ \E token \in Presentable :
           LET request == [refresh_token |-> token]
               superseded == \E k \in issued : /\ k.type = "refresh"
                                                /\ k.sub = token.sub
                                                /\ k.exp > token.exp
           IN Serve("refresh", Req(token, "", "", 0),
                    IF superseded THEN UnauthorizedError("Invalid refresh token")
                    ELSE refresh_token(db, now, request))

RefreshToken ==
    /\ resp = NoResp
    /\ \E token \in Presentable :
           LET request == [refresh_token |-> token]
           IN Serve("refresh", Req(token, "", "", 0), refresh_token(db, now, request))

GetMe ==
    /\ resp = NoResp
    /\ \E token \in Bearer :
           Serve("get_me", Req(token, "", "", 0),
                 get_current_user_profile(db, now, token))

UpdateMe ==
    /\ resp = NoResp
    /\ \E token \in Bearer :
           \E body \in Args(get_current_active_user(db, now, token), UpdateBodies) :
               Serve("update_me", UpdateReq(token, 0, body),
                     update_current_user_profile(db, now, token, body))

ListUsers ==
    /\ resp = NoResp
    /\ \E token \in Bearer :
           \E a \in Args(get_current_admin_user(db, now, token), PageInputs) :
               Serve("list_users", Req(token, "", "", 0),
                     list_users(db, now, token, a[1], a[2]))

GetUser ==
    /\ resp = NoResp
    /\ \E token \in Bearer :
           \E user_id \in Args(get_current_admin_user(db, now, token), UserIds) :
               Serve("get_user", Req(token, "", "", user_id),
                     get_user(db, now, token, user_id))

UpdateUser ==
    /\ resp = NoResp
    /\ \E token \in Bearer :
           \E user_id \in Args(get_current_admin_user(db, now, token), UserIds) :
               \E body \in Args(get_current_admin_user(db, now, token), UpdateBodies) :
                   Serve("update_user", UpdateReq(token, user_id, body),
                         update_user(db, now, token, user_id, body))

DeleteUser ==
    /\ resp = NoResp
    /\ \E token \in Bearer :
           \E user_id \in Args(get_current_admin_user(db, now, token), UserIds) :
               Serve("delete_user", Req(token, "", "", user_id),
                     delete_user(db, now, token, user_id))

Tick ==
    /\ resp = NoResp
    /\ now < MaxTime
    /\ now' = now + 1
    /\ UNCHANGED <<db, issued, resp, nwrites, inflight, run>>

Next ==
    \/ Register
    \/ Login
    \/ RefreshToken
    \/ GetMe
    \/ UpdateMe
    \/ ListUsers
    \/ GetUser
    \/ UpdateUser
    \/ DeleteUser
    \/ Deliver
    \/ Tick

Spec == Init /\ [][Next]_vars

(* Requests on /story-universes and /stories *)

CreateUniverse ==
    /\ resp = NoResp
    /\ \E token \in Bearer :
           \E a \in Args(get_current_active_user(db, now, token), UniverseInputs) :
               ServeRes("create_universe", Req(token, "", "", 0),
                           create_story_universe(db, now, token,
                                                 [name |-> a[1], description |-> a[2]]))

ListUniverses ==
    /\ resp = NoResp
    /\ \E token \in Bearer :
           \E a \in Args(get_current_active_user(db, now, token), PageInputs) :
               ServeRes("list_universes", PageReq(token, 0, a[1], a[2]),
                        list_story_universes(db, now, token, a[1], a[2]))

GetUniverse ==
    /\ resp = NoResp
    /\ \E token \in Bearer :
           \E id \in Args(get_current_active_user(db, now, token), UniverseIds) :
               ServeRes("get_universe", Req(token, "", "", id),
                        get_story_universe(db, now, token, id))

UpdateUniverse ==
    /\ resp = NoResp
    /\ \E token \in Bearer :
           \E id \in Args(get_current_active_user(db, now, token), UniverseIds) :
               \E body \in Args(get_current_active_user(db, now, token),
                                UniverseUpdateBodies) :
                   ServeRes("update_universe", UpdateReq(token, id, body),
                            update_story_universe(db, now, token, id, body))

DeleteUniverse ==
    /\ resp = NoResp
    /\ \E token \in Bearer :
           \E id \in Args(get_current_active_user(db, now, token), UniverseIds) :
               ServeRes("delete_universe", Req(token, "", "", id),
                        delete_story_universe(db, now, token, id))

CreateStory ==
    /\ resp = NoResp
    /\ \E token \in Bearer :
           \E id \in Args(get_current_active_user(db, now, token), UniverseIds) :
               \E a \in Args(get_current_active_user(db, now, token), StoryInputs) :
                   ServeRes("create_story", Req(token, "", "", id),
                               create_story(db, now, token,
                                            [story_universe_id |-> id, title |-> a[1],
                                             content |-> a[2], image_urls |-> a[3]]))

ListStories ==
    /\ resp = NoResp
    /\ \E token \in Bearer :
           \E universe_id \in Args(get_current_active_user(db, now, token),
                                   UniverseFilters) :
               \E a \in Args(get_current_active_user(db, now, token), PageInputs) :
                   ServeRes("list_stories",
                            PageReq(token, IF universe_id = None THEN 0 ELSE universe_id.v,
                                    a[1], a[2]),
                            list_stories(db, now, token, universe_id, a[1], a[2]))

GetStory ==
    /\ resp = NoResp
    /\ \E token \in Bearer :
           \E id \in Args(get_current_active_user(db, now, token), StoryIds) :
               ServeRes("get_story", Req(token, "", "", id),
                        get_story(db, now, token, id))

UpdateStory ==
    /\ resp = NoResp
    /\ \E token \in Bearer :
           \E id \in Args(get_current_active_user(db, now, token), StoryIds) :
               \E body \in Args(get_current_active_user(db, now, token),
                                StoryUpdateBodies) :
                   ServeRes("update_story", UpdateReq(token, id, body),
                            update_story(db, now, token, id, body))

DeleteStory ==
    /\ resp = NoResp
    /\ \E token \in Bearer :
           \E id \in Args(get_current_active_user(db, now, token), StoryIds) :
               ServeRes("delete_story", Req(token, "", "", id),
                        delete_story(db, now, token, id))

\* The resource endpoints over a store that may or may not enforce foreign
\* keys (PostgreSQL does, SQLite without the pragma does not)
\* The universe and the story the resource tests start from
test_universe ==
    [StoryUniverse(test_user.id, "Test Universe", Val("A test universe description"))
        EXCEPT !.id = 1]

test_story ==
    [Story(test_user.id, test_universe.id, "Test Story", Val("# Chapter 1"), None)
        EXCEPT !.id = 1]

\* A test runs with no resource fixture, with test_universe, or with
\* test_universe and test_story
ResourceFixtures ==
    {[universes |-> {}, stories |-> {}],
     [universes |-> {test_universe}, stories |-> {}],
     [universes |-> {test_universe}, stories |-> {test_story}]}

InitRes ==
    /\ \E fk \in BOOLEAN : \E fx \in ResourceFixtures :
          db = [users |-> {test_admin_user, test_user}, next_user_id |-> 3,
                universes |-> fx.universes,
                next_universe_id |-> Cardinality(fx.universes) + 1,
                stories |-> fx.stories,
                next_story_id |-> Cardinality(fx.stories) + 1, foreign_keys |-> fk]
    /\ now = 0
    /\ issued = FixtureTokens
    /\ resp = NoResp
    /\ nwrites = 0
    /\ inflight = [i \in Slots |-> NoTx]
    /\ run = NoRun

NextRes ==
    \/ Register
    \/ DeleteUser
    \/ UpdateMe
    \/ UpdateUser
    \/ CreateUniverse
    \/ ListUniverses
    \/ GetUniverse
    \/ UpdateUniverse
    \/ DeleteUniverse
    \/ CreateStory
    \/ ListStories
    \/ GetStory
    \/ UpdateStory
    \/ DeleteStory
    \/ Deliver

SpecRes == InitRes /\ [][NextRes]_vars

(* Two requests of the user service served at the same time, each in its   *)
(* own session and transaction: the lookup by email, the flush of the       *)
(* INSERT or UPDATE and the commit of get_db are separate steps             *)

\* users.email is a unique key of the store: a row whose email another
\* committed row holds cannot be written
UniqueEmailIndex(d, id, email) == \A u \in d.users : u.email = email => u.id = id

\* The other transaction has written that email and has not committed: the
\* index makes the writer wait for its commit or rollback
HeldByOther(i, email) ==
    \E j \in Slots \ {i} : inflight[j].pc = "flushed" /\ EmailStr(inflight[j].email) = email

RaceEmail(i) == EmailStr(inflight[i].email)

RaceDone(i, status) ==
    inflight' = [inflight EXCEPT ![i].pc = "done", ![i].status = status]

RaceFrame == UNCHANGED <<now, issued, resp, nwrites, run>>

\* POST /auth/register (no gate): the request is received
RaceRegister(i) ==
    /\ inflight[i].pc = "idle"
    /\ \E email \in Emails :
          inflight' = [inflight EXCEPT ![i] =
              [NoTx EXCEPT !.pc = "started", !.op = "register", !.email = email,
                           !.password = "password123"]]
    /\ db' = db
    /\ RaceFrame

\* PUT /users/me {email}: the gate resolves the caller and update_user loads
\* the row; slot i serves the fixture user with id i
RaceUpdateMe(i) ==
    /\ inflight[i].pc = "idle"
    /\ \E email \in Emails :
          LET token == create_access_token([sub |-> str(i)], 0)
              g == get_current_active_user(db, now, token)
          IN IF ~g.ok
             THEN inflight' = [inflight EXCEPT ![i] =
                      [NoTx EXCEPT !.pc = "done", !.op = "update_me", !.token = token,
                                   !.email = email, !.status = g.status]]
             ELSE inflight' = [inflight EXCEPT ![i] =
                      [NoTx EXCEPT !.pc = "started", !.op = "update_me", !.token = token,
                                   !.id = g.user.id, !.loaded = g.user.email,
                                   !.email = email]]
    /\ db' = db
    /\ RaceFrame

\* create_user / update_user: get_by_email sees what is committed
RaceLookup(i) ==
    /\ inflight[i].pc = "started"
    /\ LET email == RaceEmail(i)
           looked == inflight[i].op = "register" \/ email # inflight[i].loaded
           existing_user == UserRepository_get_by_email(db, email)
       IN IF looked /\ existing_user # None
          THEN RaceDone(i, ConflictError("User with email already exists", email).status)
          ELSE inflight' = [inflight EXCEPT ![i].pc = "checked"]
    /\ db' = db
    /\ RaceFrame

\* Variant: the INSERT or UPDATE is accepted whatever the other rows hold
FlushWithoutIndex(i) ==
    /\ inflight[i].pc = "checked"
    /\ IF inflight[i].op = "register"
       THEN LET c == UserRepository_create(db, User(RaceEmail(i),
                         get_password_hash(inflight[i].password), None))
            IN /\ inflight' = [inflight EXCEPT ![i].pc = "flushed", ![i].id = c.row.id]
               /\ db' = [db EXCEPT !.next_user_id = c.db.next_user_id]
       ELSE /\ inflight' = [inflight EXCEPT ![i].pc = "flushed"]
            /\ db' = db
    /\ RaceFrame

\* repository.create / repository.update: session.flush() sends the INSERT
\* (the id comes from the sequence, which never goes back) or the UPDATE;
\* a violation of the unique key is an IntegrityError no handler catches
RaceFlush(i) ==
    /\ inflight[i].pc = "checked"
    /\ ~HeldByOther(i, RaceEmail(i))
    /\ IF ~UniqueEmailIndex(db, inflight[i].id, RaceEmail(i))
       THEN /\ RaceDone(i, IntegrityError.status)
            /\ db' = db
       ELSE IF inflight[i].op = "register"
       THEN LET c == UserRepository_create(db, User(RaceEmail(i),
                         get_password_hash(inflight[i].password), None))
            IN /\ inflight' = [inflight EXCEPT ![i].pc = "flushed", ![i].id = c.row.id]
               /\ db' = [db EXCEPT !.next_user_id = c.db.next_user_id]
       ELSE /\ inflight' = [inflight EXCEPT ![i].pc = "flushed"]
            /\ db' = db
    /\ RaceFrame

\* get_db: the handler returned, session.commit() makes the write visible
RaceCommit(i) ==
    /\ inflight[i].pc = "flushed"
    /\ IF inflight[i].op = "register"
       THEN /\ db' = [db EXCEPT !.users = @ \cup
                        {[User(RaceEmail(i), get_password_hash(inflight[i].password),
                               None) EXCEPT !.id = inflight[i].id]}]
            /\ RaceDone(i, 201)
       ELSE LET user == CHOOSE u \in db.users : u.id = inflight[i].id
            IN /\ db' = UserRepository_update(db, user,
                                              "email" :> Val(RaceEmail(i))).db
               /\ RaceDone(i, 200)
    /\ RaceFrame

InitRace == Init

NextRace ==
    \E i \in Slots :
        \/ RaceRegister(i)
        \/ RaceUpdateMe(i)
        \/ RaceLookup(i)
        \/ RaceFlush(i)
        \/ RaceCommit(i)

SpecRace == InitRace /\ [][NextRace]_vars

(* The refresh flow and the gate applied to any token signed with the       *)
(* server key, whatever claims it carries                                   *)

SignedSubs == {ABSENT, "abc", "1", "2", "9"}
SignedTypes == {ABSENT, "access", "refresh"}

SignedTokens ==
    {jwt_encode([sub |-> sub, exp |-> exp, type |-> type], secret_key) :
        sub \in SignedSubs, exp \in 0..MaxTime, type \in SignedTypes}

InitTokens ==
    /\ \E active \in BOOLEAN :
          db = [users |-> {test_admin_user, [test_user EXCEPT !.is_active = active]},
                next_user_id |-> 3, universes |-> {}, next_universe_id |-> 1,
                stories |-> {}, next_story_id |-> 1, foreign_keys |-> TRUE]
    /\ now \in 0..MaxTime
    /\ \E token \in SignedTokens : issued = {token}
    /\ resp = NoResp
    /\ nwrites = 0
    /\ inflight = [i \in Slots |-> NoTx]
    /\ run = NoRun

\* POST /auth/refresh with the signed token
RefreshSigned ==
    /\ resp = NoResp
    /\ \E token \in issued :
          LET r == refresh_token(db, now, [refresh_token |-> token])
          IN /\ resp' = Response("refresh", Req(token, "", "", 0), r)
             /\ db' = get_db(db, r)
    /\ UNCHANGED <<now, issued, nwrites, inflight, run>>

\* GET /users/me with the signed token as bearer
GateSigned ==
    /\ resp = NoResp
    /\ \E token \in issued :
          LET r == get_current_user_profile(db, now, token)
          IN /\ resp' = Response("get_me", Req(token, "", "", 0), r)
             /\ db' = get_db(db, r)
    /\ UNCHANGED <<now, issued, nwrites, inflight, run>>

NextTokens ==
    \/ RefreshSigned
    \/ GateSigned

SpecTokens == InitTokens /\ [][NextTokens]_vars

-----------------------------------------------------------------------------
(* Worker: the example graph (worker/graphs/example_graph.py) run by        *)
(* graph.ainvoke; state is the channel values, messages is their number     *)

\* run_example_workflow passes no recursion_limit: the engine's default
\* number of supersteps of one invocation applies
recursion_limit == 25

input_node(state) ==
    [messages |-> 1, step_count |-> state.step_count + 1, should_continue |-> TRUE]

\* Variant: processing goes on for one step more
ProcessUpToAndIncludingThree(state) ==
    LET step == state.step_count + 1
    IN [messages |-> 1, step_count |-> step, should_continue |-> step <= 3]

process_node(state) ==
    LET step == state.step_count + 1
    IN [messages |-> 1, step_count |-> step, should_continue |-> step < 3]

\* output_node returns messages only; the other channels keep their value
output_node(state) ==
    [messages |-> 1, step_count |-> state.step_count,
     should_continue |-> state.should_continue]

should_continue(state) == IF state.should_continue THEN "process" ELSE "output"

\* The add_messages reducer appends, the other channels take the new value
Reduce(state, update) ==
    [messages |-> state.messages + update.messages,
     step_count |-> update.step_count,
     should_continue |-> update.should_continue]

\* One superstep: the node runs on the state, its update is applied, the
\* edge out of the node picks what runs next
Superstep(node, update, next) ==
    /\ run.supersteps <= recursion_limit
    /\ run' = [run EXCEPT !.state = Reduce(@, update),
                          !.next = next,
                          !.supersteps = @ + 1,
                          !.visits[node] = @ + 1]
    /\ UNCHANGED <<db, now, issued, resp, nwrites, inflight>>

\* START -> input; input -> should_continue
InputStep ==
    /\ run.status = "running"
    /\ run.next = "input"
    /\ LET update == input_node(run.state)
       IN Superstep("input", update, should_continue(Reduce(run.state, update)))

\* process -> should_continue
ProcessStep ==
    /\ run.status = "running"
    /\ run.next = "process"
    /\ LET update == process_node(run.state)
       IN Superstep("process", update, should_continue(Reduce(run.state, update)))

\* output -> END
OutputStep ==
    /\ run.status = "running"
    /\ run.next = "output"
    /\ Superstep("output", output_node(run.state), "END")

\* Nothing is left to run: ainvoke returns the state
Finish ==
    /\ run.status = "running"
    /\ run.next = "END"
    /\ run.supersteps <= recursion_limit
    /\ run' = [run EXCEPT !.status = "done"]
    /\ UNCHANGED <<db, now, issued, resp, nwrites, inflight>>

\* The supersteps are used up before the graph came to rest: ainvoke
\* raises GraphRecursionError
OutOfSteps ==
    /\ run.status = "running"
    /\ run.supersteps > recursion_limit
    /\ run' = [run EXCEPT !.status = "out_of_steps"]
    /\ UNCHANGED <<db, now, issued, resp, nwrites, inflight>>

\* ainvoke(initial_state): one user message, any step count, either flag
InitGraph ==
    /\ db = [users |-> {}, next_user_id |-> 1, universes |-> {},
             next_universe_id |-> 1, stories |-> {}, next_story_id |-> 1,
             foreign_keys |-> TRUE]
    /\ now = 0
    /\ issued = {}
    /\ resp = NoResp
    /\ nwrites = 0
    /\ inflight = [i \in Slots |-> NoTx]
    /\ \E n \in -MaxAbsStep..MaxAbsStep : \E flag \in BOOLEAN :
          run = [status |-> "running", next |-> "input", supersteps |-> 0, n |-> n,
                 state |-> [messages |-> 1, step_count |-> n, should_continue |-> flag],
                 visits |-> [input |-> 0, process |-> 0, output |-> 0]]

NextGraph ==
    \/ InputStep
    \/ ProcessStep
    \/ OutputStep
    \/ Finish
    \/ OutOfSteps

SpecGraph == InitGraph /\ [][NextGraph]_vars

\* The event loop runs every superstep that is ready
LiveGraph == SpecGraph /\ WF_vars(NextGraph)

-----------------------------------------------------------------------------
(* Properties *)

GateOps ==
    {"get_me", "update_me", "list_users", "get_user", "update_user", "delete_user",
     "create_universe", "list_universes", "get_universe", "update_universe",
     "delete_universe", "create_story", "list_stories", "get_story",
     "update_story", "delete_story"}

AdminOps == {"list_users", "get_user", "update_user", "delete_user"}

\* An issued token is live while the clock has not passed its exp claim
Live(k) == k \in issued /\ k.exp >= now


\* C1: the refresh flow answers a live access token of an issued pair with
\* BadRequest and hands out no tokens, and answers a string that does not
\* verify (not a token, or signed with another key) with Unauthorized; the
\* two answers differ.
C1_RefreshRejectsAccessToken ==
    /\ \A k \in issued :
          (Live(k) /\ k.type = "access") =>
              AuthService_refresh_access_token(db, now, k)
                  = BadRequestError("Invalid token type")
    /\ \A k \in Presentable :
          (k.key # secret_key) =>
              AuthService_refresh_access_token(db, now, k)
                  = UnauthorizedError("Invalid refresh token")
    /\ (resp.op = "refresh" /\ Live(resp.req.token) /\ resp.req.token.type = "access")
          => (resp.status = 400 /\ resp.body = NoBody)
    /\ (resp.op = "refresh" /\ resp.req.token.key # secret_key)
          => (resp.status = 401 /\ resp.body = NoBody)

C1_Witness ==
    /\ resp.op = "refresh"
    /\ Live(resp.req.token)
    /\ resp.req.token.type = "access"
    /\ resp.status = 400

\* C2: a live refresh token of an issued pair is refused by the gate with
\* Unauthorized on every protected endpoint, whoever its subject is; no
\* handler answers a request that carries one.
C2_GateRejectsRefreshToken ==
    /\ \A k \in issued :
          (Live(k) /\ k.type = "refresh") =>
              /\ get_current_user(db, now, k) = credentials_exception
              /\ get_current_active_user(db, now, k) = credentials_exception
              /\ get_current_admin_user(db, now, k) = credentials_exception
    /\ (resp.op \in GateOps /\ resp.req.token \in issued
            /\ resp.req.token.type = "refresh")
          => (resp.status = 401 /\ resp.body = NoBody)

C2_Witness ==
    /\ resp.op \in GateOps
    /\ Live(resp.req.token)
    /\ resp.req.token.type = "refresh"
    /\ \E u \in db.users : str(u.id) = resp.req.token.sub /\ u.is_active
    /\ resp.status = 401

\* C3: a token is issued with exp = time of issue + the ttl of its type;
\* decode_token gives its claims while the clock has not passed exp and None
\* afterwards although the signature is the server's, and then both the gate
\* and the refresh flow answer Unauthorized.
C3_Expiry ==
    /\ (resp.body.kind = "tokens") =>
          /\ resp.body.access_token = create_access_token([sub |-> resp.body.access_token.sub], now)
          /\ resp.body.access_token.exp = now + access_token_expire_minutes
          /\ resp.body.refresh_token.exp = now + refresh_token_expire_days
          /\ resp.body.refresh_token.key = secret_key
    /\ \A k \in issued :
          /\ k.key = secret_key
          /\ (k.exp < now) => /\ decode_token(k, now) = None
                              /\ get_current_user(db, now, k) = credentials_exception
                              /\ AuthService_refresh_access_token(db, now, k)
                                     = UnauthorizedError("Invalid refresh token")
          /\ (k.exp >= now) => decode_token(k, now)
                                  = [sub |-> k.sub, exp |-> k.exp, type |-> k.type]
    /\ (resp.op \in GateOps \cup {"refresh"} /\ resp.req.token \in issued
            /\ resp.req.token.exp < now)
          => (resp.status = 401 /\ resp.body = NoBody)

C3_Witness ==
    /\ resp.op \in {"get_me", "refresh"}
    /\ resp.req.token \in issued
    /\ resp.req.token.exp < now
    /\ resp.status = 401

StoryItemOps == {"get_story", "update_story", "delete_story"}
UniverseItemOps == {"get_universe", "update_universe", "delete_universe"}

StoryNotFound(id) == NotFoundError("Story with id not found", str(id))
UniverseNotFound(id) == NotFoundError("Story universe with id not found", str(id))

\* get, update and delete of the services over the store d, asked by a user
\* for a record of another user, and get over d without that record
OthersNotFound(d) ==
    /\ \A a \in d.users : \A s \in d.stories :
          (s.user_id # a.id) =>
              LET gone == [d EXCEPT !.stories = @ \ {s}]
              IN /\ StoryService_get_by_id(d, a.id, s.id) = StoryNotFound(s.id)
                 /\ StoryService_get_by_id(gone, a.id, s.id) = StoryNotFound(s.id)
                 /\ StoryService_delete(d, a.id, s.id) = StoryNotFound(s.id)
                 /\ \A body \in StoryUpdateBodies :
                       StoryService_update(d, a.id, s.id, StoryUpdate(body))
                           = StoryNotFound(s.id)
    /\ \A a \in d.users : \A u \in d.universes :
          (u.user_id # a.id) =>
              LET gone == [d EXCEPT !.universes = @ \ {u}]
              IN /\ StoryUniverseService_get_by_id(d, a.id, u.id) = UniverseNotFound(u.id)
                 /\ StoryUniverseService_get_by_id(gone, a.id, u.id) = UniverseNotFound(u.id)
                 /\ StoryUniverseService_delete(d, a.id, u.id) = UniverseNotFound(u.id)
                 /\ \A body \in UniverseUpdateBodies :
                       StoryUniverseService_update(d, a.id, u.id, StoryUniverseUpdate(body))
                           = UniverseNotFound(u.id)

\* C4: a universe or story of another user is NotFound for the caller on
\* get, update and delete, with the status and message the caller gets for an
\* id that no record has; the request leaves the store as it was.
C4_OthersResourcesNotFound ==
    [][/\ (db' # db) => OthersNotFound(db')
       /\ LET g == get_current_active_user(db, now, resp'.req.token)
              id == resp'.req.id
          IN /\ (/\ resp'.op \in StoryItemOps
                  /\ g.ok
                  /\ \E s \in db.stories : s.id = id /\ s.user_id # g.user.id)
                 => /\ resp' = Response(resp'.op, resp'.req, StoryNotFound(id))
                    /\ db' = db
             /\ (/\ resp'.op \in UniverseItemOps
                  /\ g.ok
                  /\ \E u \in db.universes : u.id = id /\ u.user_id # g.user.id)
                 => /\ resp' = Response(resp'.op, resp'.req, UniverseNotFound(id))
                    /\ db' = db
      ]_vars

C4_Witness ==
    /\ resp.op = "get_story"
    /\ resp.status = 404
    /\ resp.req.token \in issued
    /\ \E s \in db.stories : s.id = resp.req.id /\ str(s.user_id) # resp.req.token.sub

\* StoryService.create over the store d, for every user and universe id
CreateResolvesUniverse(d) ==
    \A a \in d.users : \A uid \in 1..d.next_universe_id : \A inp \in StoryInputs :
        LET data == [story_universe_id |-> uid, title |-> inp[1],
                     content |-> inp[2], image_urls |-> inp[3]]
            r == StoryService_create(d, a.id, data)
        IN IF \E u \in d.universes : u.id = uid /\ u.user_id = a.id
           THEN /\ r.ok
                /\ r.story = [Story(a.id, uid, inp[1], inp[2], inp[3])
                                  EXCEPT !.id = d.next_story_id]
                /\ r.db.stories = d.stories \cup {r.story}
           ELSE r = UniverseNotFound(uid)

\* C5: StoryService.create inserts a story, stamped with the caller's id,
\* exactly when story_universe_id is a universe of the caller; for a universe
\* of another user or an id no universe has it is NotFound, never Forbidden,
\* and no story is inserted.
C5_CreateChecksUniverse ==
    [][/\ (db' # db) => CreateResolvesUniverse(db')
       /\ LET g == get_current_active_user(db, now, resp'.req.token)
              uid == resp'.req.id
          IN (resp'.op = "create_story" /\ g.ok) =>
                 IF \E u \in db.universes : u.id = uid /\ u.user_id = g.user.id
                 THEN /\ resp'.status = 201
                      /\ resp'.body.story.user_id = g.user.id
                      /\ resp'.body.story.story_universe_id = uid
                      /\ db'.stories = db.stories \cup {resp'.body.story}
                 ELSE /\ resp' = Response("create_story", resp'.req, UniverseNotFound(uid))
                      /\ resp'.status = 404
                      /\ db' = db
      ]_vars

C5_Witness ==
    /\ resp.op = "create_story"
    /\ resp.status = 404
    /\ resp.req.token \in issued
    /\ \E u \in db.universes : u.id = resp.req.id /\ str(u.user_id) # resp.req.token.sub

UniqueEmails(d) == \A u1, u2 \in d.users : (u1.email = u2.email) => (u1 = u2)

EmailConflict(email) == ConflictError("User with email already exists", email)

\* C6: no two user records hold the same email; register with an email
\* that is held is Conflict, an update of the email to one another user
\* holds is Conflict, both without a change of the user records; an update
\* of the email to the value the user already has goes through.
C6_EmailUnique ==
    [][/\ UniqueEmails(db) /\ UniqueEmails(db')
       /\ (resp'.op = "register") =>
             LET e == EmailStr(resp'.req.email)
             IN IF \E u \in db.users : u.email = e
                THEN /\ resp' = Response("register", resp'.req, EmailConflict(e))
                     /\ resp'.status = 409
                     /\ db' = db
                ELSE /\ resp'.status = 201
                     /\ \E u \in db'.users \ db.users :
                           /\ u.email = e
                           /\ db'.users = db.users \cup {u}
       /\ (resp'.op \in {"update_me", "update_user"} /\ resp'.req.email # "") =>
             LET g == IF resp'.op = "update_me"
                      THEN get_current_active_user(db, now, resp'.req.token)
                      ELSE get_current_admin_user(db, now, resp'.req.token)
                 tid == IF resp'.op = "update_me" THEN g.user.id ELSE resp'.req.id
                 e == EmailStr(resp'.req.email)
             IN (g.ok /\ \E t \in db.users : t.id = tid) =>
                    IF \E u \in db.users : u.email = e /\ u.id # tid
                    THEN /\ resp' = Response(resp'.op, resp'.req, EmailConflict(e))
                         /\ resp'.status = 409
                         /\ db' = db
                    ELSE /\ resp'.status = 200
                         /\ resp'.body.user.email = e
                         /\ \E t \in db'.users : t.id = tid /\ t.email = e
      ]_vars

C6_Witness ==
    /\ resp.op = "register"
    /\ resp.status = 409
    /\ \E u \in db.users : u.email = EmailStr(resp.req.email)

\* C7: no two user records hold emails that are equal when letter case is
\* ignored.
C7_CaseInsensitiveUnique ==
    \A u1, u2 \in db.users : (CaseFold(u1.email) = CaseFold(u2.email)) => (u1 = u2)

\* Login credentials that fail: no user has the email, or the password is
\* not the one of the user that has it
UnknownEmail(d, email) == ~\E u \in d.users : u.email = email
WrongPassword(d, email, password) ==
    \E u \in d.users : u.email = email /\ u.hashed_password # get_password_hash(password)

BadCredentials == Raise(401, "Incorrect email or password", NoArg)

LoginFailuresAlike(d, t) ==
    \A e \in Emails : \A p \in Passwords :
        (UnknownEmail(d, e) \/ WrongPassword(d, e, p)) =>
            /\ AuthService_authenticate_user(d, e, p) = None
            /\ login(d, t, [username |-> e, password |-> p]) = BadCredentials

\* C8: login with an email no user has and login with a wrong password for
\* an email a user has are answered alike: authenticate_user gives None, the
\* endpoint answers Unauthorized with one message, and no token is issued.
C8_LoginFailuresAlike ==
    [][/\ (db' # db) => (LoginFailuresAlike(db, now) /\ LoginFailuresAlike(db', now'))
       /\ (/\ resp'.op = "login"
           /\ \/ UnknownEmail(db, resp'.req.email)
              \/ WrongPassword(db, resp'.req.email, resp'.req.password))
          => /\ resp' = Response("login", resp'.req, BadCredentials)
             /\ resp'.status = 401
             /\ issued' = issued
             /\ db' = db
      ]_vars

C8_Witness ==
    /\ resp.op = "login"
    /\ resp.status = 401
    /\ UnknownEmail(db, resp.req.email)
    /\ \E e \in Emails : \E p \in Passwords :
          /\ WrongPassword(db, e, p)
          /\ Response("login", resp.req, login(db, now, [username |-> e, password |-> p]))
                = resp

\* The details of the Unauthorized answers among the results S
Details401(S) == {r.detail : r \in {x \in S : ~x.ok /\ x.status = 401}}

\* C9: all Unauthorized answers of the gate, the login endpoint and the
\* refresh flow carry one and the same message.
C9_OneGenericSignal ==
    Cardinality(
        Details401({get_current_active_user(db, now, k) : k \in Bearer})
        \cup Details401({login(db, now, [username |-> e, password |-> p]) :
                            e \in Emails, p \in Passwords})
        \cup Details401({AuthService_refresh_access_token(db, now, k) :
                            k \in Presentable})) <= 1

\* A live access token of an active user, by the is_admin flag of the user
AccessTokenOf(k, admin) ==
    /\ Live(k)
    /\ k.type = "access"
    /\ \E u \in db.users : str(u.id) = k.sub /\ u.is_active /\ u.is_admin = admin

\* C10: an admin-only operation on /users called with a valid access token
\* of an active user who is no admin is Forbidden, called without a token
\* it is Unauthorized; in both cases nothing is read out, changed or deleted,
\* and the operation runs only for an active admin.
C10_AdminOnly ==
    [][(resp'.op \in AdminOps) =>
          LET k == resp'.req.token
          IN /\ (k = NoToken) =>
                    /\ resp'.status = 401
                    /\ resp'.body = NoBody
                    /\ db' = db
             /\ AccessTokenOf(k, FALSE) =>
                    /\ resp' = Response(resp'.op, resp'.req,
                                        ForbiddenError("Admin privileges required"))
                    /\ resp'.status = 403
                    /\ resp'.body = NoBody
                    /\ db' = db
             /\ (resp'.status \notin {401, 403} \/ resp'.body # NoBody \/ db' # db) =>
                    AccessTokenOf(k, TRUE)
      ]_vars

C10_Witness ==
    /\ resp.op = "delete_user"
    /\ resp.status = 403
    /\ AccessTokenOf(resp.req.token, FALSE)
    /\ resp.body = NoBody

\* The outcome the gate owes a token at a tier (1 authenticated, 2 active,
\* 3 admin), from the facts about the token and its subject taken in order
GateOutcome(d, t, k, tier) ==
    IF k = NoToken THEN Raise(401, "Not authenticated", NoArg)
    ELSE IF k.key # secret_key \/ k.exp < t THEN credentials_exception
    ELSE IF k.type # "access" THEN credentials_exception
    ELSE IF ~\E u \in d.users : str(u.id) = k.sub THEN credentials_exception
    ELSE LET u == CHOOSE x \in d.users : str(x.id) = k.sub
         IN IF tier >= 2 /\ ~u.is_active THEN UnauthorizedError("Inactive user")
            ELSE IF tier >= 3 /\ ~u.is_admin
            THEN ForbiddenError("Admin privileges required")
            ELSE [ok |-> TRUE, user |-> u]

GateInOrder(d, t, tokens) ==
    \A k \in tokens :
        /\ get_current_user(d, t, k) = GateOutcome(d, t, k, 1)
        /\ get_current_active_user(d, t, k) = GateOutcome(d, t, k, 2)
        /\ get_current_admin_user(d, t, k) = GateOutcome(d, t, k, 3)
        /\ get_current_admin_user(d, t, k).ok => get_current_active_user(d, t, k).ok
        /\ get_current_active_user(d, t, k).ok => get_current_user(d, t, k).ok

\* C11: the gate checks in the order verifies, type access, subject exists,
\* active, admin, and the first check that fails decides; an inactive user
\* on an admin-only operation is Unauthorized("Inactive user"), never
\* Forbidden, and the handler does not run.
C11_GateOrder ==
    /\ GateInOrder(db, now, Bearer)
    /\ [][/\ (<<db, now, issued>>' # <<db, now, issued>>) =>
                GateInOrder(db', now', Bearer')
          /\ LET k == resp'.req.token
             IN (/\ resp'.op \in AdminOps
                 /\ Live(k)
                 /\ k.type = "access"
                 /\ \E u \in db.users : str(u.id) = k.sub /\ ~u.is_active)
                => /\ resp' = Response(resp'.op, resp'.req, UnauthorizedError("Inactive user"))
                   /\ resp'.status = 401
                   /\ resp'.body = NoBody
                   /\ db' = db
         ]_vars

C11_Witness ==
    /\ resp.op \in AdminOps
    /\ resp.status = 401
    /\ resp.detail.msg = "Inactive user"
    /\ Live(resp.req.token)
    /\ \E u \in db.users : str(u.id) = resp.req.token.sub /\ ~u.is_active /\ u.is_admin

\* The answer the refresh flow owes a token, from the facts about the token
\* and its subject taken in the order of the flow
RefreshOutcome(d, t, k) ==
    IF k.key # secret_key \/ k.exp < t THEN UnauthorizedError("Invalid refresh token")
    ELSE IF k.type # "refresh" THEN BadRequestError("Invalid token type")
    ELSE IF ~\E u \in d.users : str(u.id) = k.sub THEN UnauthorizedError("User not found")
    ELSE LET u == CHOOSE x \in d.users : str(x.id) = k.sub
         IN IF ~u.is_active THEN UnauthorizedError("User is inactive")
            ELSE Return(200, [kind |-> "tokens",
                              access_token |-> create_access_token([sub |-> k.sub], t),
                              refresh_token |-> create_refresh_token([sub |-> k.sub], t),
                              token_type |-> "bearer"], d)

RefreshInOrder(d, t, tokens) ==
    \A k \in tokens : AuthService_refresh_access_token(d, t, k) = RefreshOutcome(d, t, k)

\* C12: the refresh flow checks in the order verifies, type refresh, subject
\* exists, subject active, and stops at the first failure: Unauthorized,
\* BadRequest, Unauthorized, Unauthorized; otherwise it answers with a pair
\* of tokens for the subject, issued now.
C12_RefreshOrder ==
    /\ RefreshInOrder(db, now, Presentable)
    /\ [][/\ (<<db, now, issued>>' # <<db, now, issued>>) =>
                RefreshInOrder(db', now', Presentable')
          /\ (resp'.op = "refresh") =>
                /\ resp' = Response("refresh", resp'.req, RefreshOutcome(db, now, resp'.req.token))
                /\ db' = db
                /\ (resp'.status # 200) => issued' = issued
         ]_vars

C12_Witness ==
    /\ resp.op = "refresh"
    /\ resp.status = 400
    /\ Live(resp.req.token)
    /\ resp.req.token.type = "access"
    /\ ~\E u \in db.users : str(u.id) = resp.req.token.sub

\* A refresh token the refresh flow has to accept: the server's signature,
\* not expired, and its subject exists and is active
Refreshable(d, t, k) ==
    /\ k.key = secret_key
    /\ k.type = "refresh"
    /\ k.exp >= t
    /\ \E u \in d.users : str(u.id) = k.sub /\ u.is_active

PairFor(sub, t) ==
    [kind |-> "tokens",
     access_token |-> create_access_token([sub |-> sub], t),
     refresh_token |-> create_refresh_token([sub |-> sub], t),
     token_type |-> "bearer"]

\* C13: a refresh token that has been used is accepted again while it has
\* not expired and its subject exists and is active; every use answers with
\* a pair for the same subject issued at the time of the use, and takes no
\* token out of use.
C13_RefreshReusable ==
    [][LET k == resp'.req.token
       IN /\ (resp'.op = "refresh" /\ k \in issued /\ Refreshable(db, now, k)) =>
                /\ resp'.status = 200
                /\ resp'.body = PairFor(k.sub, now)
                /\ issued' = issued \cup {resp'.body.access_token, resp'.body.refresh_token}
                /\ Refreshable(db', now', k)
                /\ AuthService_refresh_access_token(db', now', k).ok
                /\ \A j \in issued :
                      /\ get_current_user(db', now', j) = get_current_user(db, now, j)
                      /\ AuthService_refresh_access_token(db', now', j)
                            = AuthService_refresh_access_token(db, now, j)
          /\ (resp'.op = "refresh" /\ resp'.status = 200) => Refreshable(db, now, k)
      ]_vars

C13_Witness ==
    /\ resp.op = "refresh"
    /\ resp.status = 200
    /\ resp.req.token \in issued
    /\ resp.body.refresh_token # resp.req.token
    /\ resp.req.token.exp = now
    /\ AuthService_refresh_access_token(db, now, resp.req.token).ok

\* A token that has not expired and whose subject exists and is active
InForce(d, t, k) ==
    /\ k.key = secret_key
    /\ k.exp >= t
    /\ \E u \in d.users : str(u.id) = k.sub /\ u.is_active

\* Every token in force is accepted by the operation of its type
NoneRevoked(d, t, tokens) ==
    \A k \in tokens :
        InForce(d, t, k) =>
            IF k.type = "access"
            THEN /\ get_current_active_user(d, t, k).ok
                 /\ str(get_current_active_user(d, t, k).user.id) = k.sub
            ELSE AuthService_refresh_access_token(d, t, k) = Return(200, PairFor(k.sub, t), d)

\* C14: a token handed out is accepted by the operation of its type at
\* every moment up to its exp, whatever requests were served since (logins,
\* refreshes, a change of password or email), while its subject exists and
\* is active.
C14_NoEarlyRevocation ==
    /\ NoneRevoked(db, now, issued)
    /\ [][/\ (<<db, now, issued>>' # <<db, now, issued>>) =>
                NoneRevoked(db', now', issued')
          /\ issued \subseteq issued'
          /\ LET k == resp'.req.token
             IN (resp'.op = "get_me" /\ k \in issued /\ k.type = "access" /\ InForce(db, now, k)) =>
                    /\ resp'.status = 200
                    /\ str(resp'.body.user.id) = k.sub
         ]_vars

C14_Witness ==
    /\ resp.op = "get_me"
    /\ resp.status = 200
    /\ resp.req.token \in SeedTokens
    /\ \E u \in db.users : /\ str(u.id) = resp.req.token.sub
                            /\ u.hashed_password # get_password_hash("password123")

\* No row of the user table carries this subject
Deleted(d, sub) == \A u \in d.users : str(u.id) # sub

\* The gate and the refresh flow turn away every token of a subject without
\* a row
RejectedWhenDeleted(d, t, tokens) ==
    \A k \in tokens :
        Deleted(d, k.sub) =>
            /\ get_current_user(d, t, k) = credentials_exception
            /\ ~AuthService_refresh_access_token(d, t, k).ok
            /\ (k.type = "refresh") =>
                   AuthService_refresh_access_token(d, t, k).status = 401

\* C15: once an admin has deleted a user, every token issued for that user
\* is rejected from then on (access tokens at the gate, refresh tokens at
\* the refresh flow, both with 401), and no new token is issued for the
\* deleted subject.
C15_DeletedSubjectRejected ==
    /\ RejectedWhenDeleted(db, now, Presentable)
    /\ [][/\ (<<db, now, issued>>' # <<db, now, issued>>) =>
                RejectedWhenDeleted(db', now', Presentable')
          /\ (resp'.op = "delete_user" /\ resp'.status = 204) =>
                /\ \E u \in db.users : u.id = resp'.req.id
                /\ Deleted(db', str(resp'.req.id))
          /\ \A id \in 1..(db.next_user_id - 1) :
                Deleted(db, str(id)) => Deleted(db', str(id))
          /\ \A k \in issued' \ issued : ~Deleted(db', k.sub)
          /\ LET k == resp'.req.token
             IN /\ (resp'.op \in GateOps /\ k \in issued /\ Deleted(db, k.sub)) =>
                      /\ resp' = Response(resp'.op, resp'.req, credentials_exception)
                      /\ db' = db
                /\ (resp'.op = "refresh" /\ k \in issued /\ Deleted(db, k.sub)) =>
                      /\ resp'.status \in {400, 401}
                      /\ (k.type = "refresh") => resp'.status = 401
                      /\ issued' = issued
         ]_vars

\* The test user's fixture token, not expired, is turned away after an admin
\* deleted the test user
C15_Witness ==
    /\ resp.op = "get_me"
    /\ resp.status = 401
    /\ resp.req.token \in FixtureTokens
    /\ Live(resp.req.token)
    /\ resp.req.token.sub = str(test_user.id)
    /\ Deleted(db, resp.req.token.sub)

\* The record a partial payload leads to: a field the payload carries with a
\* value takes that value, every other field is as it was
Applied(old, data) ==
    [f \in DOMAIN old |->
        IF f \in DOMAIN data /\ ~data[f].null
        THEN IF f \in NullableColumns THEN data[f] ELSE data[f].v
        ELSE old[f]]

\* PUT /stories/{id} and PUT /story-universes/{id} over the store d: the
\* record changes as the payload says and nothing else does, the empty
\* payload changes nothing, and the same request once more changes nothing
UpdatesExact(d, t, tokens) ==
    \A token \in tokens :
        /\ \A s \in d.stories : \A body \in StoryUpdateBodies :
              LET r == update_story(d, t, token, s.id, body)
              IN r.ok =>
                   /\ r.body.story = Applied(s, body)
                   /\ r.db = [d EXCEPT !.stories = (@ \ {s}) \cup {Applied(s, body)}]
                   /\ (DOMAIN body = {}) => (r.db = d /\ r.body.story = s)
                   /\ LET again == update_story(r.db, t, token, s.id, body)
                      IN again.ok /\ again.body = r.body /\ again.db = r.db
        /\ \A u \in d.universes : \A body \in UniverseUpdateBodies :
              LET r == update_story_universe(d, t, token, u.id, body)
              IN r.ok =>
                   /\ r.body.universe = Applied(u, body)
                   /\ r.db = [d EXCEPT !.universes = (@ \ {u}) \cup {Applied(u, body)}]
                   /\ (DOMAIN body = {}) => (r.db = d /\ r.body.universe = u)
                   /\ LET again == update_story_universe(r.db, t, token, u.id, body)
                      IN again.ok /\ again.body = r.body /\ again.db = r.db

UpdateOps == {"update_me", "update_user", "update_universe", "update_story"}

\* The payload that carries the one field f, set to null
NullOf(f) == f :> None

\* Every update endpoint over the store d: a payload whose field is null
\* leaves the store as it was and returns the record as it was
NullSkipped(d, t, tokens) ==
    \A token \in tokens :
        /\ \A s \in d.stories : \A f \in StoryUpdateFields :
              LET r == update_story(d, t, token, s.id, NullOf(f))
              IN r.ok => (r.db = d /\ r.body.story = s)
        /\ \A u \in d.universes : \A f \in StoryUniverseUpdateFields :
              LET r == update_story_universe(d, t, token, u.id, NullOf(f))
              IN r.ok => (r.db = d /\ r.body.universe = u)
        /\ \A f \in UserAdminUpdateFields :
              /\ get_db(d, update_current_user_profile(d, t, token, NullOf(f))) = d
              /\ \A u \in d.users :
                    get_db(d, update_user(d, t, token, u.id, NullOf(f))) = d

\* A nullable field that holds a value in rows holds one in after as well
NonNullKept(rows, after, fields) ==
    \A r \in rows : \A a \in after : \A f \in fields :
        (r.id = a.id /\ ~r[f].null) => ~a[f].null

\* C17: in every update (user, universe, story) a field whose value in the
\* payload is null is skipped, the stored value is the same after as before;
\* no update turns a nullable field that holds a value (story content,
\* image_urls, universe description, user full_name) back into null.
C17_NullSkipped ==
    [][/\ (db' # db) => (NullSkipped(db, now, Bearer) /\ NullSkipped(db', now', Bearer'))
       /\ (resp'.op \in UpdateOps) =>
             /\ (\E f \in DOMAIN resp'.req.body : resp'.req.body[f].null) => db' = db
             /\ NonNullKept(db.users, db'.users, {"full_name"})
             /\ NonNullKept(db.universes, db'.universes, {"description"})
             /\ NonNullKept(db.stories, db'.stories, {"content", "image_urls"})
      ]_vars

\* PUT /stories/1 with content null was answered 200 and the fixture story
\* still holds its content
C17_Witness ==
    /\ resp.op = "update_story"
    /\ resp.status = 200
    /\ resp.req.body = NullOf("content")
    /\ resp.body.story = test_story
    /\ test_story \in db.stories
    /\ ~test_story.content.null

\* C18: update tells an omitted field from one explicitly set to null; an
\* omitted field is left as it is, and an explicit null on a nullable field
\* (story content, image_urls, universe description) clears the stored
\* value to null.
C18_ExplicitNullClears ==
    [][/\ (resp'.op = "update_story" /\ resp'.status = 200) =>
             \A s \in db.stories : \A a \in db'.stories :
                 (s.id = resp'.req.id /\ a.id = s.id) =>
                     \A f \in {"content", "image_urls"} :
                         IF f \in DOMAIN resp'.req.body
                         THEN resp'.req.body[f].null => a[f] = None
                         ELSE a[f] = s[f]
       /\ (resp'.op = "update_universe" /\ resp'.status = 200) =>
             \A u \in db.universes : \A a \in db'.universes :
                 (u.id = resp'.req.id /\ a.id = u.id) =>
                     IF "description" \in DOMAIN resp'.req.body
                     THEN resp'.req.body["description"].null => a.description = None
                     ELSE a.description = u.description
      ]_vars

\* The two flags of every user that is in both stores are the same
FlagsKept(d, after) ==
    \A u \in d.users : \A a \in after.users :
        (u.id = a.id) => (a.is_active = u.is_active /\ a.is_admin = u.is_admin)

\* PUT /users/me over the store d, whatever one-field body it carries: only
\* the caller's record can differ, and on it only email, full_name and the
\* password hash
ProfileUpdateFrame(d, t, tokens) ==
    \A token \in tokens : \A body \in UpdateBodies :
        LET after == get_db(d, update_current_user_profile(d, t, token, body))
        IN /\ FlagsKept(d, after)
           /\ {u.id : u \in after.users} = {u.id : u \in d.users}
           /\ \A u \in d.users : str(u.id) # token.sub => u \in after.users
           /\ [after EXCEPT !.users = {}] = [d EXCEPT !.users = {}]

\* C19: PUT /users/me never changes the caller's active flag or admin flag,
\* whatever the body carries (is_active and is_admin included); it changes
\* only email, full name and password, and only on the caller's own record.
\* Only the admin update changes the flags.
C19_ProfileUpdateKeepsFlags ==
    /\ ProfileUpdateFrame(db, now, Bearer)
    /\ [][/\ (db' # db) => ProfileUpdateFrame(db', now', Bearer')
          /\ (resp'.op = "update_me") =>
                /\ FlagsKept(db, db')
                /\ {u.id : u \in db'.users} = {u.id : u \in db.users}
                /\ \A u \in db.users :
                      str(u.id) # resp'.req.token.sub => u \in db'.users
                /\ (resp'.status = 200) =>
                      \E u \in db.users : \E a \in db'.users :
                          /\ str(u.id) = resp'.req.token.sub
                          /\ a.id = u.id
                          /\ resp'.body.user = UserResponse(a)
          /\ ~FlagsKept(db, db') =>
                /\ resp'.op = "update_user"
                /\ resp'.status = 200
                /\ get_current_admin_user(db, now, resp'.req.token).ok
         ]_vars

\* PUT /users/me {is_active: false} was answered 200 and the caller is
\* still active
C19_Witness ==
    /\ resp.op = "update_me"
    /\ resp.status = 200
    /\ resp.req.body = ("is_active" :> Val(FALSE))
    /\ resp.body.user.is_active
    /\ \E u \in db.users : str(u.id) = resp.req.token.sub /\ u.is_active

ErrorStatuses == {400, 401, 403, 404, 409, 500}
SuccessStatuses == {200, 201, 204}

\* What a successful request wrote is in the store the next request sees
Durable(op, req, body, d, after) ==
    CASE op = "register" ->
             \E a \in after.users :
                 /\ body.user = UserResponse(a)
                 /\ after = [d EXCEPT !.users = @ \cup {a}, !.next_user_id = @ + 1]
      [] op \in {"update_me", "update_user"} ->
             \E u \in d.users : \E a \in after.users :
                 /\ body.user = UserResponse(a)
                 /\ after = [d EXCEPT !.users = (@ \ {u}) \cup {a}]
      [] op = "delete_user" ->
             \E u \in d.users :
                 u.id = req.id /\ after = [d EXCEPT !.users = @ \ {u}]
      [] op = "create_universe" ->
             after = [d EXCEPT !.universes = @ \cup {body.universe},
                               !.next_universe_id = @ + 1]
      [] op = "update_universe" ->
             \E u \in d.universes :
                 after = [d EXCEPT !.universes = (@ \ {u}) \cup {body.universe}]
      [] op = "delete_universe" ->
             \E u \in d.universes :
                 u.id = req.id /\ after = [d EXCEPT !.universes = @ \ {u}]
      [] op = "create_story" ->
             after = [d EXCEPT !.stories = @ \cup {body.story},
                               !.next_story_id = @ + 1]
      [] op = "update_story" ->
             \E x \in d.stories :
                 after = [d EXCEPT !.stories = (@ \ {x}) \cup {body.story}]
      [] op = "delete_story" ->
             \E x \in d.stories :
                 x.id = req.id /\ after = [d EXCEPT !.stories = @ \ {x}]
      [] OTHER -> after = d

\* C20: every request runs in one transaction; a request that ends in an
\* error of any kind leaves the user, universe and story stores exactly as
\* they were, and a request that succeeds has all of its writes in the store
\* from then on.
C20_RequestTransaction ==
    [][/\ (resp'.op # "none") =>
             /\ resp'.status \in ErrorStatuses \cup SuccessStatuses
             /\ (resp'.status \in ErrorStatuses) => db' = db
             /\ (resp'.status \in SuccessStatuses) =>
                   Durable(resp'.op, resp'.req, resp'.body, db, db')
       /\ (resp'.op = "none") => db' = db
      ]_vars

\* PUT /users/me that asked for the other user's email was refused with 409
\* and both user records are the fixtures
C20_Witness ==
    /\ resp.op = "update_me"
    /\ resp.status = 409
    /\ resp.req.body # EmptyBody
    /\ db.users = {test_admin_user, test_user}

\* rows is a page of the set S: min(limit, max(0, n - skip)) different
\* records of S
PageOf(rows, S, skip, limit) ==
    /\ Len(rows) = Min(limit, IF Cardinality(S) > skip THEN Cardinality(S) - skip ELSE 0)
    /\ \A i \in DOMAIN rows : rows[i] \in S
    /\ \A i, j \in DOMAIN rows : (rows[i] = rows[j]) => (i = j)

OwnedBy(rows, sub) == {r \in rows : str(r.user_id) = sub}

\* GET /stories and GET /story-universes over the store d, for every caller
\* and every skip and limit
ListsOwn(d, t, tokens) ==
    \A token \in tokens : \A a \in PageInputs :
        /\ LET r == list_stories(d, t, token, None, a[1], a[2])
           IN r.ok => /\ r.db = d
                      /\ PageOf(r.body.rows, OwnedBy(d.stories, token.sub), a[1], a[2])
        /\ LET r == list_story_universes(d, t, token, a[1], a[2])
           IN r.ok => /\ r.db = d
                      /\ PageOf(r.body.rows, OwnedBy(d.universes, token.sub), a[1], a[2])

\* C21: listing universes or stories returns only records whose user_id is
\* the caller's; with n such records it returns exactly
\* min(limit, max(0, n - skip)) of them, the empty list when there are none;
\* listing changes no record.
C21_ListOwnPage ==
    /\ ListsOwn(db, now, Bearer)
    /\ [][/\ (db' # db) => ListsOwn(db', now', Bearer')
          /\ (resp'.op \in {"list_universes", "list_stories"}) => db' = db
          /\ (resp'.op = "list_universes" /\ resp'.status = 200) =>
                PageOf(resp'.body.rows, OwnedBy(db.universes, resp'.req.token.sub),
                       resp'.req.body["skip"].v, resp'.req.body["limit"].v)
          /\ (resp'.op = "list_stories" /\ resp'.status = 200 /\ resp'.req.id = 0) =>
                PageOf(resp'.body.rows, OwnedBy(db.stories, resp'.req.token.sub),
                       resp'.req.body["skip"].v, resp'.req.body["limit"].v)
         ]_vars

\* Two universes of two users are stored; the caller's list with skip 0 and
\* limit 100 holds the caller's one
C21_Witness ==
    /\ resp.op = "list_universes"
    /\ resp.status = 200
    /\ resp.req.body["skip"].v = 0
    /\ resp.req.body["limit"].v = 100
    /\ Len(resp.body.rows) = 1
    /\ str(resp.body.rows[1].user_id) = resp.req.token.sub
    /\ \E u \in db.universes : str(u.user_id) # resp.req.token.sub

\* The outcome of GET /stories?universe_id=id for a caller the gate lets in:
\* NotFound unless the universe is the caller's, else a page of the caller's
\* stories of that universe
FilteredListOutcome(d, r, sub, id, skip, limit) ==
    IF \E u \in d.universes : u.id = id /\ str(u.user_id) = sub
    THEN /\ r.status = 200
         /\ \A i \in DOMAIN r.body.rows :
               /\ r.body.rows[i].story_universe_id = id
               /\ str(r.body.rows[i].user_id) = sub
         /\ PageOf(r.body.rows,
                   {x \in OwnedBy(d.stories, sub) : x.story_universe_id = id},
                   skip, limit)
    ELSE /\ r.status = 404
         /\ r.detail = NotFoundError("Story universe with id not found", str(id)).detail
         /\ r.body = NoBody

\* GET /stories?universe_id=id over the store d, for every caller, universe
\* id, skip and limit
FilteredListsChecked(d, t, tokens) ==
    \A token \in tokens : \A id \in 1..d.next_universe_id : \A a \in PageInputs :
        LET r == list_stories(d, t, token, Val(id), a[1], a[2])
        IN get_current_active_user(d, t, token).ok =>
               FilteredListOutcome(d, Response("list_stories", PageReq(token, id, a[1], a[2]), r),
                                   token.sub, id, a[1], a[2])

\* C22: listing stories filtered by a universe id first re-validates the
\* universe for the caller; a universe that does not exist or belongs to
\* another user gives NotFound, never an empty list, and for the caller's
\* own universe every story returned has that story_universe_id and the
\* caller's user_id.
C22_FilteredListChecksUniverse ==
    /\ FilteredListsChecked(db, now, Bearer)
    /\ [][/\ (db' # db) => FilteredListsChecked(db', now', Bearer')
          /\ (/\ resp'.op = "list_stories"
              /\ resp'.req.id # 0
              /\ get_current_active_user(db, now, resp'.req.token).ok) =>
                /\ FilteredListOutcome(db, resp', resp'.req.token.sub, resp'.req.id,
                                       resp'.req.body["skip"].v, resp'.req.body["limit"].v)
                /\ db' = db
         ]_vars

\* The list filtered by a universe of another user was answered 404
C22_Witness ==
    /\ resp.op = "list_stories"
    /\ resp.status = 404
    /\ resp.req.token \in issued
    /\ \E u \in db.universes :
          /\ u.id = resp.req.id
          /\ str(u.user_id) # resp.req.token.sub
          /\ \E x \in db.stories : x.story_universe_id = u.id

\* C23: delete(owner, id) on a universe or story removes exactly the record
\* with that id owned by owner and no other record; afterwards get and a
\* second delete fail with NotFound; delete on an id that is absent or owned
\* by another user fails with NotFound and removes nothing.
C23_DeleteExact ==
    [][LET token == resp'.req.token
           id == resp'.req.id
       IN /\ (resp'.op = "delete_universe" /\ get_current_active_user(db, now, token).ok) =>
                IF \E u \in db.universes : u.id = id /\ str(u.user_id) = token.sub
                THEN /\ resp'.status = 204
                     /\ \E u \in db.universes :
                           u.id = id /\ db' = [db EXCEPT !.universes = @ \ {u}]
                     /\ get_story_universe(db', now', token, id).status = 404
                     /\ delete_story_universe(db', now', token, id).status = 404
                ELSE resp'.status = 404 /\ db' = db
          /\ (resp'.op = "delete_story" /\ get_current_active_user(db, now, token).ok) =>
                IF \E x \in db.stories : x.id = id /\ str(x.user_id) = token.sub
                THEN /\ resp'.status = 204
                     /\ \E x \in db.stories :
                           x.id = id /\ db' = [db EXCEPT !.stories = @ \ {x}]
                     /\ get_story(db', now', token, id).status = 404
                     /\ delete_story(db', now', token, id).status = 404
                ELSE resp'.status = 404 /\ db' = db
      ]_vars

\* The pair p is the one of user u issued at time t
PairOf(p, u, t) ==
    /\ p.access_token.key = secret_key
    /\ p.access_token.sub = str(u.id)
    /\ p.access_token.type = "access"
    /\ p.access_token.exp = t + access_token_expire_minutes
    /\ p.refresh_token.key = secret_key
    /\ p.refresh_token.sub = str(u.id)
    /\ p.refresh_token.type = "refresh"
    /\ p.refresh_token.exp = t + refresh_token_expire_days

\* create_tokens for every user of d, and the gate for every access token
\* handed out: it resolves to the record whose id the token names, and it
\* does so whenever the token has not expired and that record exists
PairsResolve(d, t, tokens) ==
    /\ \A u \in d.users :
          /\ PairOf(AuthService_create_tokens(u, t), u, t)
          /\ get_current_user(d, t, AuthService_create_tokens(u, t).access_token)
                = [ok |-> TRUE, user |-> u]
    /\ \A k \in tokens :
          (k.type = "access") =>
              LET g == get_current_user(d, t, k)
              IN /\ g.ok => (g.user \in d.users /\ str(g.user.id) = k.sub)
                 /\ (k.exp >= t /\ \E u \in d.users : str(u.id) = k.sub) => g.ok
    /\ \A u, v \in d.users : (str(u.id) = str(v.id)) => (u = v)

\* C24: create_tokens(user) returns a pair whose tokens both carry the
\* user's id as subject, one of type access with the access lifetime and
\* one of type refresh with the refresh lifetime; the access token of a pair
\* from a successful login or refresh of user U, presented at the gate
\* before it expires, resolves to U's own record and to no other user.
C24_PairResolvesToItsUser ==
    /\ PairsResolve(db, now, issued)
    /\ [][/\ (<<db, now, issued>>' # <<db, now, issued>>) =>
                PairsResolve(db', now', issued')
          /\ (resp'.op = "login" /\ resp'.status = 200) =>
                \E u \in db.users :
                    /\ u.email = resp'.req.email
                    /\ PairOf(resp'.body, u, now)
                    /\ get_current_user(db', now', resp'.body.access_token)
                          = [ok |-> TRUE, user |-> u]
          /\ (resp'.op = "refresh" /\ resp'.status = 200) =>
                \E u \in db.users :
                    /\ str(u.id) = resp'.req.token.sub
                    /\ PairOf(resp'.body, u, now)
                    /\ get_current_user(db', now', resp'.body.access_token)
                          = [ok |-> TRUE, user |-> u]
          /\ (resp'.op = "get_me" /\ resp'.status = 200) =>
                \E u \in db.users :
                    /\ str(u.id) = resp'.req.token.sub
                    /\ resp'.body.user = UserResponse(u)
         ]_vars

\* The access token of a pair from a login after time 0 was presented to
\* GET /users/me and answered with the record of the user who logged in
C24_Witness ==
    /\ resp.op = "get_me"
    /\ resp.status = 200
    /\ resp.req.token \in issued \ SeedTokens
    /\ resp.req.token.type = "access"
    /\ resp.body.user.id = test_user.id
    /\ resp.req.token.sub = str(test_user.id)
    /\ Cardinality(db.users) >= 2

\* The subject of the token is a stored user who is active
ActiveSubject(d, sub) == \E u \in d.users : str(u.id) = sub /\ u.is_active

\* login and the refresh flow over the store d: whoever gets a pair is
\* active, and the pair is for that user
IssuedToActiveOnly(d, t, tokens) ==
    /\ \A username \in Emails : \A password \in Passwords :
          LET r == login(d, t, [username |-> username, password |-> password])
              user == AuthService_authenticate_user(d, username, password)
          IN /\ r.ok => ActiveSubject(d, r.body.access_token.sub)
             /\ (user # None /\ ~user.is_active) =>
                   r = Raise(401, "User is inactive", NoArg)
    /\ \A k \in tokens :
          LET r == AuthService_refresh_access_token(d, t, k)
          IN /\ r.ok => ActiveSubject(d, r.body.access_token.sub)
             /\ (/\ k.key = secret_key /\ k.exp >= t /\ k.type = "refresh"
                 /\ \E u \in d.users : str(u.id) = k.sub /\ ~u.is_active) =>
                   r = UnauthorizedError("User is inactive")

\* C25: no pair is issued for a user who is inactive at that time; login
\* with the correct credentials of an inactive user is Unauthorized and
\* returns no tokens, refresh with a valid refresh token of a user
\* deactivated since is Unauthorized; every pair issued belongs to a user
\* who existed and was active when it was issued.
C25_NoPairForInactive ==
    /\ IssuedToActiveOnly(db, now, Presentable)
    /\ [][/\ (<<db, now, issued>>' # <<db, now, issued>>) =>
                IssuedToActiveOnly(db', now', Presentable')
          /\ \A k \in issued' \ issued :
                /\ resp'.op \in {"login", "refresh"}
                /\ resp'.status = 200
                /\ ActiveSubject(db, k.sub)
          /\ (resp'.op \in {"login", "refresh"} /\ resp'.status = 200) =>
                /\ ActiveSubject(db, resp'.body.access_token.sub)
                /\ resp'.body.refresh_token.sub = resp'.body.access_token.sub
          /\ (/\ resp'.op = "login"
              /\ \E u \in db.users : /\ u.email = resp'.req.email
                                      /\ verify_password(resp'.req.password, u.hashed_password)
                                      /\ ~u.is_active) =>
                /\ resp'.status = 401
                /\ resp'.body = NoBody
                /\ issued' = issued
          /\ (/\ resp'.op = "refresh"
              /\ Live(resp'.req.token)
              /\ resp'.req.token.type = "refresh"
              /\ \E u \in db.users : str(u.id) = resp'.req.token.sub /\ ~u.is_active) =>
                /\ resp'.status = 401
                /\ resp'.body = NoBody
                /\ issued' = issued
         ]_vars

\* A login with the right password of a deactivated user was refused
C25_Witness ==
    /\ resp.op = "login"
    /\ resp.status = 401
    /\ resp.detail.msg = "User is inactive"
    /\ \E u \in db.users : /\ u.email = resp.req.email
                            /\ verify_password(resp.req.password, u.hashed_password)
                            /\ ~u.is_active

RaceSucceeded(i) == inflight[i].pc = "done" /\ inflight[i].status \in SuccessStatuses

RaceFailed(i) == inflight[i].pc = "done" /\ inflight[i].status \in ErrorStatuses

\* C26: of two requests served at the same time that give a user the same
\* email (two registrations, or a registration and an update of the email),
\* with lookup, write and commit interleaved in any order, at most one
\* succeeds, and no committed state holds two users with one email.
C26_ConcurrentEmailUnique ==
    /\ UniqueEmails(db)
    /\ \A i, j \in Slots :
          (i # j /\ RaceEmail(i) = RaceEmail(j))
             => ~(RaceSucceeded(i) /\ RaceSucceeded(j))

\* Both lookups found the email free, one request committed, the other one
\* was stopped at its write
C26_Witness ==
    /\ inflight[1].status = 201 /\ inflight[1].op = "register"
    /\ RaceFailed(2) /\ inflight[2].status = 500
    /\ inflight[2].op = "update_me"
    /\ RaceEmail(1) = RaceEmail(2)
    /\ \E u \in db.users : u.email = RaceEmail(1) /\ u.id = inflight[1].id
    /\ UniqueEmails(db)

StoryInOwnUniverse(d, s) ==
    \E u \in d.universes : u.id = s.story_universe_id /\ u.user_id = s.user_id

\* C27: in every reachable state every stored story references a universe
\* that exists and is owned by the user who owns the story, whatever
\* universe and story requests were served before.
C27_StoriesReferenceOwnUniverse == \A s \in db.stories : StoryInOwnUniverse(db, s)

\* C28: for every token that verifies under the server key, whatever its
\* claims, the refresh flow ends in a token pair, Unauthorized or BadRequest
\* and the gate ends in an authenticated user or Unauthorized; neither ends
\* in a failure without a tag.
C28_TaggedOutcomes ==
    /\ resp.op = "refresh" =>
          \/ resp.status = 200 /\ resp.body.kind = "tokens"
          \/ resp.status \in {400, 401}
    /\ resp.op = "get_me" =>
          \/ resp.status = 200 /\ resp.body.kind = "user"
          \/ resp.status = 401

\* A record that is in both stores under one id has its owner (and, for a
\* story, its universe) unchanged; a record under a new id has the next id
UniverseIdentityKept(d, e) ==
    \A q \in e.universes :
        IF \E r \in d.universes : r.id = q.id
        THEN \A r \in d.universes : r.id = q.id => r.user_id = q.user_id
        ELSE q.id = d.next_universe_id

StoryIdentityKept(d, e) ==
    \A q \in e.stories :
        IF \E r \in d.stories : r.id = q.id
        THEN \A r \in d.stories :
                r.id = q.id => /\ r.user_id = q.user_id
                               /\ r.story_universe_id = q.story_universe_id
        ELSE q.id = d.next_story_id

\* Every record the request changed or removed belongs to its caller
TouchedOwn(old, new, sub) == \A r \in old : r \notin new => str(r.user_id) = sub

OnUniverse == {"get_universe", "update_universe", "delete_universe"}
OnStory == {"get_story", "update_story", "delete_story"}

\* C29: no request changes the id or user_id of an existing universe or
\* story nor the story_universe_id of an existing story, and a user who did
\* not create a resource can neither read nor change nor remove it: a
\* get, update or delete of another user's resource is NotFound and leaves
\* the store alone, and whatever a request changes belongs to its caller.
C29_IdentityAndOwnershipKept ==
    [][LET token == resp'.req.token
           id == resp'.req.id
       IN /\ UniverseIdentityKept(db, db')
          /\ StoryIdentityKept(db, db')
          /\ TouchedOwn(db.universes, db'.universes, token.sub)
          /\ TouchedOwn(db.stories, db'.stories, token.sub)
          /\ (resp'.op \in OnUniverse /\ get_current_active_user(db, now, token).ok) =>
                IF \E u \in db.universes : u.id = id /\ str(u.user_id) = token.sub
                THEN resp'.status \in {200, 204, 500}
                ELSE /\ resp'.status = 404
                     /\ resp'.body = NoBody
                     /\ db' = db
          /\ (resp'.op \in OnStory /\ get_current_active_user(db, now, token).ok) =>
                IF \E x \in db.stories : x.id = id /\ str(x.user_id) = token.sub
                THEN resp'.status \in {200, 204}
                ELSE /\ resp'.status = 404
                     /\ resp'.body = NoBody
                     /\ db' = db
          /\ (resp'.op \in {"get_universe", "update_universe"} /\ resp'.status = 200) =>
                /\ resp'.body.universe.id = id
                /\ str(resp'.body.universe.user_id) = token.sub
          /\ (resp'.op \in {"get_story", "update_story"} /\ resp'.status = 200) =>
                /\ resp'.body.story.id = id
                /\ str(resp'.body.story.user_id) = token.sub
          /\ (resp'.op = "create_story" /\ resp'.status = 201) =>
                \E u \in db.universes :
                    /\ u.id = resp'.body.story.story_universe_id
                    /\ u.user_id = resp'.body.story.user_id
                    /\ str(u.user_id) = token.sub
      ]_vars

\* The admin, who is active and owns nothing, asked to change the test
\* user's universe and got NotFound
C29_Witness ==
    /\ resp.op = "update_universe"
    /\ resp.status = 404
    /\ resp.req.token = create_access_token([sub |-> "1"], 0)
    /\ \E u \in db.universes : u.id = resp.req.id /\ u.user_id = 2
    /\ \E s \in db.stories : s.user_id = 2 /\ s.story_universe_id = resp.req.id

Max(a, b) == IF a > b THEN a ELSE b

\* The whole run from step count n fits into the supersteps of one invocation:
\* input, the process steps and output
Fits(n) == 2 + Max(1, 2 - n) <= recursion_limit

RunEnded == run.status \in {"done", "out_of_steps"}

\* The order of the visits: input first and once, process at least once
\* and again exactly while the step count it just produced is below 3,
\* then output once, then END
VisitOrder ==
    /\ (run.visits.input = 0) => (run'.visits.input = 1 /\ run'.next = "process")
    /\ (run'.visits.process > run.visits.process) =>
          /\ run.visits.input = 1 /\ run.visits.output = 0
          /\ run'.next = IF run'.state.step_count < 3 THEN "process" ELSE "output"
    /\ (run'.visits.output > run.visits.output) =>
          /\ run.visits.process >= 1 /\ run.visits.output = 0
          /\ run'.next = "END"
    /\ run'.visits.input <= 1

====
